---- MODULE Spec2Model ----
(***************************************************************************)
(* Model of the mcpengine proxy pipeline (package mcpengine): FileReader,  *)
(* HTTPPostSender, SSEWorker and OutputProxy joined by the channels        *)
(* stdinToPost, postPathChan and stdoutChan, run by MCPEngine.Start, with  *)
(* the AuthManager that HTTPPostSender consults on 401/403.                *)
(*                                                                         *)
(* Strings are modelled as tuples of tokens; a token is a piece of text    *)
(* that the code never looks inside ("/messages/", "session_id", ...).     *)
(***************************************************************************)
EXTENDS Integers, Sequences, FiniteSets, TLC

(* ------------------------------ bounds --------------------------------- *)
MaxLines == 2
MaxEvents == 2
MaxTime == 4
MaxCallbacks == 1
MaxFlowCallbacks == 2
MaxCalls == 4

(* ------------------------- program constants --------------------------- *)
StdinToPostCap == 1000
PostPathCap == 1
ErrorChanCap == 1
StdoutCap == 1000
MaxAuthAttempts == 3
AuthCooldownPeriod == 1

(* ------------------------- values of the run --------------------------- *)
Host == <<"http://h">>
MCPPath == <<"/mcp">>

LineA == <<"{", "id", "7", "}">>
LineB == <<"{", "method", "}">>
Lines == {LineA, LineB}
\* messages whose id is written in the other ways JSON allows, a message
\* whose id is a string that is not a number, and a line that is not JSON
LineFloat == <<"{", "id", "7.0", "}">>
LineStr == <<"{", "id", "\"", "7", "\"", "}">>
LineStrFloat == <<"{", "id", "\"", "7.0", "\"", "}">>
LineStrAbc == <<"{", "id", "\"", "abc", "\"", "}">>
LineStrNaN == <<"{", "id", "\"", "NaN", "\"", "}">>
LineNull == <<"{", "id", "null", "}">>
LineMalformed == <<"{", "id", "7">>
IdLines == Lines \cup {LineFloat, LineStr, LineStrFloat, LineStrAbc, LineStrNaN,
                       LineNull, LineMalformed}

EpA == <<"/messages/", "a">>
EpBad == <<"/mcp", "%zz", "?", "session_id", "=1">>
DataHello == <<"hello">>
Events == {EpA, EpBad, DataHello}
DataWorld == <<"world">>
SseEvents == Events \cup {DataWorld}

Body200 == <<"result">>
Body202 == <<"accepted">>
BodyOther == <<"oops">>
BodyDenied == <<"unauthorized">>
Responses ==
    { [status |-> 200, body |-> Body200, wwwAuth |-> FALSE, hasURL |-> TRUE],
      [status |-> 202, body |-> Body202, wwwAuth |-> FALSE, hasURL |-> TRUE],
      [status |-> 401, body |-> BodyDenied, wwwAuth |-> TRUE, hasURL |-> TRUE],
      [status |-> 403, body |-> BodyDenied, wwwAuth |-> FALSE, hasURL |-> TRUE],
      [status |-> 500, body |-> BodyOther, wwwAuth |-> FALSE, hasURL |-> TRUE] }

Resp401 == [status |-> 401, body |-> BodyDenied, wwwAuth |-> TRUE, hasURL |-> TRUE]

\* a 401 response built by hand whose Request carries no URL
RespNoURL == [status |-> 401, body |-> BodyDenied, wwwAuth |-> TRUE, hasURL |-> FALSE]

\* the state generateState made for the authorization URL, and another one
GeneratedState == "s1"
ForgedState == "s2"

Token == "tok1"
NoOIDC == [authorization_endpoint |-> <<>>, token_endpoint |-> <<>>, issuer |-> <<>>]
OIDCDoc == [authorization_endpoint |-> <<"https://auth.example.com/auth">>,
            token_endpoint |-> <<"https://auth.example.com/token">>,
            issuer |-> <<"https://auth.example.com">>]

(* ------------------------------ state ---------------------------------- *)
VARIABLES
    useSse,             \* MCPEngine.useSse
    maxAuthAttempts,    \* AuthManager.opts.MaxAuthAttempts
    parentDone,         \* the context passed to Start is cancelled
    childDone,          \* the child context's cancel() has been called
    startRet,           \* Start has returned
    stdinBuf,           \* lines written to the input and not yet scanned
    stdinState,         \* "open", "eof" or "err"
    frPc, frLine, frRet,
    linesRead,          \* history: lines returned by scanner.Scan
    stdinToPost, stdinToPostClosed,
    postPathChan,
    stdoutChan,
    hsPc, hsURL, hsMsg, hsOut, hsRet,
    posts,              \* history: requests handed to client.Do
    pathRecv,           \* history: values received from postPathChan
    sseSub,             \* "subscribing", "ok", "failed", "closed"
    swPc, swMsg, endpointSent, swRet,
    sseRecv,            \* history: events received by SSEWorker
    pathSent,           \* history: values sent on postPathChan
    opPc, opRet,
    stdout,             \* what was written and flushed to the output file
    now, authAttempts, lastAuthAttempt,
    oidcConfig, authServer, accessToken, cbPending, cbCount, authCompleteClosed,
    stdoutHist,         \* history: values sent on stdoutChan, with producer
    resp200,            \* history: 200 responses received by HTTPPostSender
    authServersUp,      \* callback servers started and not shut down
    authLog,            \* history: calls of the AuthManager's methods, with results
    waiters,            \* the waiter of each started flow: "waiting" or "returned"
    bodiesOpen,         \* response bodies HTTPPostSender holds un-closed
    authPanic,          \* close(a.authCompleteChan) ran on the closed channel
    \* a second AuthManager, given the same calls at the same times
    maxAuthAttempts2, authAttempts2, lastAuthAttempt2,
    decisions,          \* history: the decisions of the two managers, call by call
    \* the alternative ProxyServer (package proxy)
    InputReader,        \* lines written to p.InputReader and not yet scanned
    inputState,         \* "open", "eof" or "err"
    irPc, irLine,       \* the input goroutine of Start
    sseBody,            \* the SSE response: "none", "open", "closed" or "err"
    scPc, scErr,        \* handleSSEConnection
    PostURL, Connected,
    OutputWriter,       \* lines written to p.OutputWriter
    DoneChanClosed,
    ErrorChan,
    startErr,           \* what Start returned ("none": still receiving)
    msPc, msInput, msConnected,     \* handleMessageSending
    stopPc,             \* Stop: "none", "waiting" or "returned"
    eventLog,           \* history: events given to processEvent
    sent                \* history: calls of sendMessage

cfgVars == <<useSse, maxAuthAttempts>>
pairVars == <<maxAuthAttempts2, authAttempts2, lastAuthAttempt2, decisions>>
pxInVars == <<InputReader, inputState>>
irVars == <<irPc, irLine>>
scVars == <<sseBody, scPc, scErr>>
connVars == <<PostURL, Connected>>
msVars == <<msPc, msInput, msConnected>>
pxHist == <<eventLog, sent>>
pxVars == <<pxInVars, irVars, scVars, connVars, OutputWriter, DoneChanClosed, ErrorChan,
            startErr, msVars, stopPc, pxHist>>
otherVars == <<pairVars, pxVars>>
ctxVars == <<parentDone, childDone, startRet>>
inVars == <<stdinBuf, stdinState>>
frVars == <<frPc, frLine, frRet, linesRead>>
inChan == <<stdinToPost, stdinToPostClosed>>
hsVars == <<hsPc, hsURL, hsMsg, hsOut, hsRet, posts, pathRecv, resp200, bodiesOpen>>
swVars == <<sseSub, swPc, swMsg, endpointSent, swRet, sseRecv>>
opVars == <<opPc, opRet, stdout>>
ledgerVars == <<authAttempts, lastAuthAttempt>>
flowVars == <<oidcConfig, authServer, accessToken, cbPending, cbCount, authCompleteClosed>>
authVars == <<ledgerVars, flowVars, authServersUp, authLog, waiters>>
pathChan == <<postPathChan, pathSent>>
outChan == <<stdoutChan, stdoutHist>>

engineVars == <<cfgVars, authPanic, ctxVars, inVars, frVars, inChan, hsVars, swVars, opVars,
                now, authVars, pathChan, outChan>>

vars == <<cfgVars, otherVars, authPanic, ctxVars, inVars, frVars, inChan, hsVars, swVars, opVars,
          now, authVars, pathChan, outChan>>

(* ---------------------------- pure helpers ----------------------------- *)
HasPrefix(s, p) == Len(s) >= Len(p) /\ SubSeq(s, 1, Len(p)) = p
Contains(s, tok) == \E i \in 1..Len(s) : s[i] = tok

\* SSEWorker.Run: strings.HasPrefix(msgStr, "/messages/") || strings.Contains(msgStr, "session_id")
IsEndpointLike(msgStr) == HasPrefix(msgStr, <<"/messages/">>) \/ Contains(msgStr, "session_id")

\* url.Parse fails on an invalid percent escape
UrlParseOk(s) == ~Contains(s, "%zz")


\* fmt.Sprintf("%s%s", hs.host, endpointPath)
EndpointURL(host, path) == host \o path

\* the child context is done when its parent is cancelled or cancel() was called
CtxDone == parentDone \/ childDone

\* postPathChan pre-seeded with the MCP path in either mode
StartSeed_Always(sse) == <<MCPPath>>

\* postPathChan as Start leaves it: empty in SSE mode, pre-seeded in direct mode
StartSeed(sse) == IF sse THEN <<>> ELSE <<MCPPath>>

(* ------------------------------- Init ---------------------------------- *)
\* NewProxyServer, then Start up to its receive on ErrorChan: the three
\* goroutines are launched
InitProxyServer ==
    /\ InputReader = <<>> /\ inputState = "open"
    /\ irPc = "scan" /\ irLine = <<>>
    /\ sseBody = "none" /\ scPc = "connect" /\ scErr = "none"
    /\ PostURL = <<>> /\ Connected = FALSE
    /\ OutputWriter = <<>>
    /\ DoneChanClosed = FALSE
    /\ ErrorChan = <<>>
    /\ startErr = "none"
    /\ msPc = "loop" /\ msInput = <<>> /\ msConnected = FALSE
    /\ stopPc = "none"
    /\ eventLog = <<>> /\ sent = <<>>

\* MCPEngine.Start up to the call of runWorkersAndWait: the channels are made,
\* the workers constructed, postPathChan pre-seeded in direct mode, and every
\* worker's goroutine launched; the AuthManager is as NewAuthManager built it.
InitPipeline ==
    /\ useSse \in BOOLEAN
    /\ parentDone = FALSE /\ childDone = FALSE /\ startRet = FALSE
    /\ stdinBuf = <<>> /\ stdinState = "open"
    /\ frPc = "scan" /\ frLine = <<>> /\ frRet = "none" /\ linesRead = <<>>
    /\ stdinToPost = <<>> /\ stdinToPostClosed = FALSE
    /\ postPathChan = StartSeed(useSse)
    /\ pathSent = StartSeed(useSse)
    /\ stdoutChan = <<>> /\ stdoutHist = <<>>
    /\ hsPc = "waitEndpoint" /\ hsURL = <<>> /\ hsMsg = [n |-> 0, line |-> <<>>]
    /\ hsOut = [src |-> "none", val |-> <<>>] /\ hsRet = "none"
    /\ posts = <<>> /\ pathRecv = <<>> /\ resp200 = <<>>
    /\ sseSub = IF useSse THEN "subscribing" ELSE "none"
    /\ swPc = IF useSse THEN "recv" ELSE "absent"
    /\ swMsg = <<>> /\ endpointSent = FALSE /\ swRet = "none" /\ sseRecv = <<>>
    /\ opPc = "loop" /\ opRet = "none" /\ stdout = <<>>
    /\ now = 1 /\ authAttempts = 0 /\ lastAuthAttempt = 0
    /\ oidcConfig = NoOIDC /\ authServer = "none" /\ accessToken = ""
    /\ cbPending = 0 /\ cbCount = 0 /\ authCompleteClosed = FALSE
    /\ authServersUp = 0 /\ authLog = <<>>
    /\ waiters = <<>> /\ bodiesOpen = 0
    /\ authPanic = FALSE
    /\ authAttempts2 = 0 /\ lastAuthAttempt2 = 0 /\ decisions = <<>>
    /\ InitProxyServer

\* the engine built by New with a nil AuthConfig: resolveConfig's defaults
Init ==
    /\ InitPipeline
    /\ maxAuthAttempts = MaxAuthAttempts
    /\ maxAuthAttempts2 = MaxAuthAttempts

\* an AuthManager built by NewAuthManager with a configured MaxAuthAttempts
InitAuth ==
    /\ InitPipeline
    /\ useSse = FALSE
    /\ maxAuthAttempts \in 1..MaxAuthAttempts
    /\ maxAuthAttempts2 = maxAuthAttempts

(* --------------------------- environment ------------------------------- *)
\* the client writes one more line to the proxy's standard input
StdinWrite(l) ==
    /\ stdinState = "open"
    /\ Len(linesRead) + Len(stdinBuf) < MaxLines
    /\ stdinBuf' = Append(stdinBuf, l)
    /\ UNCHANGED <<cfgVars, otherVars, authPanic, ctxVars, stdinState, frVars, inChan, hsVars, swVars, opVars,
                   now, authVars, pathChan, outChan>>

\* the client closes the input (end of file), or reading it starts to fail
StdinEnd(how) ==
    /\ stdinState = "open"
    /\ stdinState' = how
    /\ UNCHANGED <<cfgVars, otherVars, authPanic, ctxVars, stdinBuf, frVars, inChan, hsVars, swVars, opVars,
                   now, authVars, pathChan, outChan>>

\* the caller of Start cancels the context it passed
ParentCancel ==
    /\ ~parentDone
    /\ parentDone' = TRUE
    /\ UNCHANGED <<cfgVars, otherVars, authPanic, childDone, startRet, inVars, frVars, inChan, hsVars, swVars,
                   opVars, now, authVars, pathChan, outChan>>

\* the expiry of the cooldown zeroes the counter
Tick_ZeroesCounter ==
    /\ now < MaxTime
    /\ lastAuthAttempt # 0
    /\ now - lastAuthAttempt < AuthCooldownPeriod
    /\ now' = now + 1
    /\ authAttempts' = 0
    /\ UNCHANGED <<cfgVars, otherVars, authPanic, ctxVars, inVars, frVars, inChan, hsVars, swVars, opVars,
                   lastAuthAttempt, flowVars, authServersUp, waiters, authLog, pathChan, outChan>>

\* time passes (time.Now advances by one unit).  The program reads the clock
\* only in CanAttemptAuth, to compare now - lastAuthAttempt with the cooldown,
\* so the clock is advanced only while that comparison can still change.
Tick ==
    /\ now < MaxTime
    /\ lastAuthAttempt # 0
    /\ now - lastAuthAttempt < AuthCooldownPeriod
    /\ now' = now + 1
    /\ UNCHANGED <<cfgVars, otherVars, authPanic, ctxVars, inVars, frVars, inChan, hsVars, swVars, opVars,
                   authVars, pathChan, outChan>>

(* ----------------------------- FileReader ------------------------------ *)
\* scanner.Scan() returns TRUE with the next line, then the select with
\* default: return ctx.Err() when the context is done (the deferred close
\* runs), else go on to the send
FRScanLine ==
    /\ frPc = "scan"
    /\ stdinBuf # <<>>
    /\ frLine' = Head(stdinBuf)
    /\ stdinBuf' = Tail(stdinBuf)
    /\ linesRead' = Append(linesRead, Head(stdinBuf))
    /\ IF CtxDone
         THEN /\ frPc' = "done" /\ frRet' = "ctxErr" /\ stdinToPostClosed' = TRUE
         ELSE /\ frPc' = "send" /\ UNCHANGED <<frRet, stdinToPostClosed>>
    /\ UNCHANGED <<cfgVars, otherVars, authPanic, ctxVars, stdinState, stdinToPost, hsVars, swVars, opVars,
                   now, authVars, pathChan, outChan>>

\* FileReader returns at the end of the input without closing its channel
FRScanEnd_NoClose ==
    /\ frPc = "scan"
    /\ stdinBuf = <<>>
    /\ stdinState \in {"eof", "err"}
    /\ frRet' = IF stdinState = "err" THEN "readErr" ELSE "EOF"
    /\ frPc' = "done"
    /\ UNCHANGED <<cfgVars, otherVars, authPanic, ctxVars, inVars, frLine, linesRead, inChan, hsVars, swVars,
                   opVars, now, authVars, pathChan, outChan>>

\* scanner.Scan() returns FALSE: end of input (return io.EOF) or a read error
\* (return scanner.Err()); the deferred close(fr.outputChan) runs
FRScanEnd ==
    /\ frPc = "scan"
    /\ stdinBuf = <<>>
    /\ stdinState \in {"eof", "err"}
    /\ frRet' = IF stdinState = "err" THEN "readErr" ELSE "EOF"
    /\ frPc' = "done"
    /\ stdinToPostClosed' = TRUE
    /\ UNCHANGED <<cfgVars, otherVars, authPanic, ctxVars, inVars, frLine, linesRead, stdinToPost, hsVars, swVars,
                   opVars, now, authVars, pathChan, outChan>>


\* the line is put at the head of the channel instead of its tail
FRSend_Front ==
    /\ frPc = "send"
    /\ Len(stdinToPost) < StdinToPostCap
    /\ stdinToPost' = <<[n |-> Len(linesRead), line |-> frLine]>> \o stdinToPost
    /\ frPc' = "scan"
    /\ UNCHANGED <<cfgVars, otherVars, authPanic, ctxVars, inVars, frLine, frRet, linesRead, stdinToPostClosed,
                   hsVars, swVars, opVars, now, authVars, pathChan, outChan>>

\* fr.outputChan <- line (a plain send: blocks while the channel is full)
FRSend ==
    /\ frPc = "send"
    /\ Len(stdinToPost) < StdinToPostCap
    /\ stdinToPost' = Append(stdinToPost, [n |-> Len(linesRead), line |-> frLine])
    /\ frPc' = "scan"
    /\ UNCHANGED <<cfgVars, otherVars, authPanic, ctxVars, inVars, frLine, frRet, linesRead, stdinToPostClosed,
                   hsVars, swVars, opVars, now, authVars, pathChan, outChan>>

(* ----------------------------- AuthManager ----------------------------- *)
\* the counter is incremented without being reset at the maximum
CanAttemptAuth_NoReset(attempts, last, t) ==
    IF last # 0 /\ t - last < AuthCooldownPeriod
      THEN [ok |-> FALSE, err |-> "cooldown", attempts |-> attempts, last |-> last]
      ELSE [ok |-> TRUE, err |-> "nil", attempts |-> attempts + 1, last |-> t]

\* the attempt is counted but the time of the attempt is not stamped
CanAttemptAuth_NoStamp(attempts, last, t) ==
    IF last # 0 /\ t - last < AuthCooldownPeriod
      THEN [ok |-> FALSE, err |-> "cooldown", attempts |-> attempts, last |-> last]
      ELSE [ok |-> TRUE, err |-> "nil",
            attempts |-> (IF attempts >= maxAuthAttempts THEN 0 ELSE attempts) + 1,
            last |-> last]

\* every attempt is permitted
CanAttemptAuth_AlwaysPermit(attempts, last, t) ==
    [ok |-> TRUE, err |-> "nil",
     attempts |-> (IF attempts >= maxAuthAttempts THEN 0 ELSE attempts) + 1,
     last |-> t]

\* the maximum is looked at before the cooldown, and the counter is not reset
CanAttemptAuthWith_MaxFirst(max, attempts, last, t) ==
    IF attempts >= max
      THEN [ok |-> FALSE, err |-> "max", attempts |-> attempts, last |-> last]
      ELSE IF last # 0 /\ t - last < AuthCooldownPeriod
             THEN [ok |-> FALSE, err |-> "cooldown", attempts |-> attempts, last |-> last]
             ELSE [ok |-> TRUE, err |-> "nil", attempts |-> attempts + 1, last |-> t]

\* lastAuthAttempt = 0 stands for the zero time.Time (IsZero)
\* CanAttemptAuth of a manager configured with MaxAuthAttempts = max: the
\* decision, the error returned and the ledger it leaves, at time t
CanAttemptAuthWith(max, attempts, last, t) ==
    IF last # 0 /\ t - last < AuthCooldownPeriod
      THEN [ok |-> FALSE, err |-> "cooldown", attempts |-> attempts, last |-> last]
      ELSE IF attempts >= max /\ ~(last = 0 \/ t - last >= AuthCooldownPeriod)
             THEN [ok |-> FALSE, err |-> "max", attempts |-> attempts, last |-> last]
             ELSE [ok |-> TRUE, err |-> "nil",
                   attempts |-> (IF attempts >= max THEN 0 ELSE attempts) + 1,
                   last |-> t]

\* CanAttemptAuth of the manager of the engine
CanAttemptAuth(attempts, last, t) ==
    CanAttemptAuthWith(maxAuthAttempts, attempts, last, t)

\* the same call made on both managers at the same time
PairCanAttemptAuth ==
    /\ Len(decisions) < MaxCalls
    /\ LET d1 == CanAttemptAuthWith(maxAuthAttempts, authAttempts, lastAuthAttempt, now)
           d2 == CanAttemptAuthWith(maxAuthAttempts2, authAttempts2, lastAuthAttempt2, now)
       IN  /\ authAttempts' = d1.attempts
           /\ lastAuthAttempt' = d1.last
           /\ authAttempts2' = d2.attempts
           /\ lastAuthAttempt2' = d2.last
           /\ decisions' = Append(decisions, [op |-> "CanAttemptAuth", t |-> now,
                                              err1 |-> d1.err, err2 |-> d2.err])
    /\ UNCHANGED <<cfgVars, maxAuthAttempts2, pxVars, authPanic, ctxVars, inVars, frVars,
                   inChan, hsVars, swVars, opVars, now, flowVars, authServersUp, authLog,
                   waiters, pathChan, outChan>>

\* ResetAuthAttempts called on both managers
PairResetAuthAttempts ==
    /\ Len(decisions) < MaxCalls
    /\ authAttempts' = 0 /\ lastAuthAttempt' = 0
    /\ authAttempts2' = 0 /\ lastAuthAttempt2' = 0
    /\ decisions' = Append(decisions, [op |-> "ResetAuthAttempts", t |-> now,
                                       err1 |-> "nil", err2 |-> "nil"])
    /\ UNCHANGED <<cfgVars, maxAuthAttempts2, pxVars, authPanic, ctxVars, inVars, frVars,
                   inChan, hsVars, swVars, opVars, now, flowVars, authServersUp, authLog,
                   waiters, pathChan, outChan>>

\* oauth2.Config.AuthCodeURL: the authorization endpoint followed by the query
AuthCodeURL(endpoint) == endpoint \o <<"?response_type=code&state=">>

\* the challenge is handled without the admission check
HandleAuthChallenge_NoAdmission(resp, disc, prov, t) ==
    LET base == [err |-> "nil", authURL |-> <<>>, attempts |-> authAttempts + 1, last |-> t,
                 oidc |-> oidcConfig, server |-> authServer, up |-> authServersUp,
                 fetched |-> FALSE]
    IN  IF ~resp.wwwAuth THEN [base EXCEPT !.err = "noHeader"]
        ELSE IF ~resp.hasURL THEN [base EXCEPT !.err = "noURL"]
        ELSE IF disc # "ok" THEN [base EXCEPT !.err = "discovery", !.fetched = TRUE]
        ELSE IF prov # "ok" THEN [base EXCEPT !.err = "provider", !.oidc = OIDCDoc,
                                              !.fetched = TRUE]
        ELSE [base EXCEPT !.oidc = OIDCDoc, !.server = "serving", !.fetched = TRUE,
                          !.up = authServersUp + 1,
                          !.authURL = AuthCodeURL(OIDCDoc.authorization_endpoint)]

\* a challenge that fails after the admission gives the attempt back
HandleAuthChallenge_Rollback(resp, disc, prov, t) ==
    LET adm == CanAttemptAuth(authAttempts, lastAuthAttempt, t)
        base == [err |-> "nil", authURL |-> <<>>, attempts |-> authAttempts,
                 last |-> lastAuthAttempt,
                 oidc |-> oidcConfig, server |-> authServer, up |-> authServersUp,
                 fetched |-> FALSE]
    IN  IF ~adm.ok THEN [base EXCEPT !.err = "denied"]
        ELSE IF ~resp.wwwAuth THEN [base EXCEPT !.err = "noHeader"]
        ELSE IF ~resp.hasURL THEN [base EXCEPT !.err = "noURL"]
        ELSE IF disc # "ok" THEN [base EXCEPT !.err = "discovery", !.fetched = TRUE]
        ELSE IF prov # "ok" THEN [base EXCEPT !.err = "provider", !.oidc = OIDCDoc,
                                              !.fetched = TRUE]
        ELSE [base EXCEPT !.attempts = adm.attempts, !.last = adm.last,
                          !.oidc = OIDCDoc, !.server = "serving", !.fetched = TRUE,
                          !.up = authServersUp + 1,
                          !.authURL = AuthCodeURL(OIDCDoc.authorization_endpoint)]

\* HandleAuthChallenge(ctx, resp) at time t, when the OIDC discovery fetch
\* answers disc and oidc.NewProvider answers prov: the error (or "nil"), the
\* authorization URL, whether the discovery request was issued, and the
\* AuthManager fields it leaves behind.  startAuthServer replaces a.server by
\* a new server whatever the state of the one it held.
HandleAuthChallenge(resp, disc, prov, t) ==
    LET adm == CanAttemptAuth(authAttempts, lastAuthAttempt, t)
        base == [err |-> "nil", authURL |-> <<>>, attempts |-> adm.attempts, last |-> adm.last,
                 oidc |-> oidcConfig, server |-> authServer, up |-> authServersUp,
                 fetched |-> FALSE]
    IN  IF ~adm.ok THEN [base EXCEPT !.err = "denied"]
        ELSE IF ~resp.wwwAuth THEN [base EXCEPT !.err = "noHeader"]
        ELSE IF ~resp.hasURL THEN [base EXCEPT !.err = "noURL"]
        ELSE IF disc # "ok" THEN [base EXCEPT !.err = "discovery", !.fetched = TRUE]
        ELSE IF prov # "ok" THEN [base EXCEPT !.err = "provider", !.oidc = OIDCDoc,
                                              !.fetched = TRUE]
        ELSE [base EXCEPT !.oidc = OIDCDoc, !.server = "serving", !.fetched = TRUE,
                          !.up = authServersUp + 1,
                          !.authURL = AuthCodeURL(OIDCDoc.authorization_endpoint)]

\* an entry of the history of calls
LogEntry(op, n, err, url, fetched) ==
    [op |-> op, n |-> n, err |-> err, url |-> url, fetched |-> fetched]

\* a.CanAttemptAuth() called on the AuthManager directly
CanAttemptAuthCall ==
    /\ Len(authLog) < MaxCalls
    /\ LET adm == CanAttemptAuth(authAttempts, lastAuthAttempt, now)
       IN  /\ authAttempts' = adm.attempts
           /\ lastAuthAttempt' = adm.last
           /\ authLog' = Append(authLog, LogEntry("CanAttemptAuth", 0,
                                                  IF adm.ok THEN "nil" ELSE "denied",
                                                  <<>>, FALSE))
    /\ UNCHANGED <<cfgVars, otherVars, authPanic, ctxVars, inVars, frVars, inChan, hsVars, swVars, opVars,
                   now, flowVars, authServersUp, waiters, pathChan, outChan>>

\* only the counter is zeroed, the stamp of the last attempt is kept
ResetAuthAttempts_KeepStamp ==
    /\ Len(authLog) < MaxCalls
    /\ authAttempts' = 0
    /\ UNCHANGED lastAuthAttempt
    /\ authLog' = Append(authLog, LogEntry("ResetAuthAttempts", 0, "nil", <<>>, FALSE))
    /\ UNCHANGED <<cfgVars, otherVars, authPanic, ctxVars, inVars, frVars, inChan, hsVars, swVars, opVars,
                   now, flowVars, authServersUp, waiters, pathChan, outChan>>

\* a.ResetAuthAttempts(): lastAuthAttempt = time.Time{}, authAttempts = 0
ResetAuthAttempts ==
    /\ Len(authLog) < MaxCalls
    /\ authAttempts' = 0
    /\ lastAuthAttempt' = 0
    /\ authLog' = Append(authLog, LogEntry("ResetAuthAttempts", 0, "nil", <<>>, FALSE))
    /\ UNCHANGED <<cfgVars, otherVars, authPanic, ctxVars, inVars, frVars, inChan, hsVars, swVars, opVars,
                   now, flowVars, authServersUp, waiters, pathChan, outChan>>

\* a.HandleAuthChallenge(ctx, resp) called on the AuthManager directly
HandleAuthChallengeCall(resp, disc, prov) ==
    /\ Len(authLog) < MaxCalls
    /\ CtxDone => disc = "fail"
    /\ LET ch == HandleAuthChallenge(resp, disc, prov, now)
       IN  /\ authAttempts' = ch.attempts
           /\ lastAuthAttempt' = ch.last
           /\ oidcConfig' = ch.oidc
           /\ authServer' = ch.server
           /\ authServersUp' = ch.up
           /\ waiters' = IF ch.err = "nil" THEN Append(waiters, "waiting") ELSE waiters
           /\ authLog' = Append(authLog, LogEntry("HandleAuthChallenge", 0, ch.err,
                                                  ch.authURL, ch.fetched))
    /\ UNCHANGED <<cfgVars, otherVars, authPanic, ctxVars, inVars, frVars, inChan, hsVars, swVars, opVars,
                   now, accessToken, cbPending, cbCount, authCompleteClosed,
                   pathChan, outChan>>

\* GetAccessToken
GetAccessToken == accessToken

\* the token is stored whether or not the request carries a code and the
\* exchange succeeds
AuthCallback_StoreAlways(hasCode, exchangeOk) ==
    /\ authServersUp > 0
    /\ cbCount < MaxCallbacks
    /\ cbCount' = cbCount + 1
    /\ accessToken' = Token
    /\ cbPending' = IF hasCode /\ exchangeOk THEN cbPending + 1 ELSE cbPending
    /\ authLog' = Append(authLog, LogEntry("handleCallback", 0,
                                           IF ~hasCode THEN "noCode"
                                           ELSE IF ~exchangeOk THEN "exchange" ELSE "nil",
                                           <<"state=", GeneratedState>>, FALSE))
    /\ UNCHANGED <<cfgVars, otherVars, authPanic, ctxVars, inVars, frVars, inChan, hsVars, swVars, opVars,
                   now, ledgerVars, oidcConfig, authServer, authCompleteClosed,
                   authServersUp, waiters, pathChan, outChan>>

\* handleCallback refuses a request whose state is not the generated one
handleCallback_CheckState(hasCode, st, exchangeOk) ==
    /\ authServersUp > 0
    /\ cbCount' = cbCount + 1
    /\ IF hasCode /\ exchangeOk /\ st = GeneratedState
         THEN /\ accessToken' = Token
              /\ cbPending' = cbPending + 1
         ELSE UNCHANGED <<accessToken, cbPending>>
    /\ authLog' = Append(authLog, LogEntry("handleCallback", 0,
                                           IF ~hasCode THEN "noCode"
                                           ELSE IF st # GeneratedState THEN "state"
                                           ELSE IF ~exchangeOk THEN "exchange" ELSE "nil",
                                           <<"state=", st>>, FALSE))
    /\ UNCHANGED <<cfgVars, otherVars, authPanic, ctxVars, inVars, frVars, inChan, hsVars, swVars, opVars,
                   now, ledgerVars, oidcConfig, authServer, authCompleteClosed,
                   authServersUp, waiters, pathChan, outChan>>

\* handleCallback(w, r) for a request whose query carries a code or not and
\* the state st, when the token exchange succeeds or fails; the log keeps
\* the request's state
handleCallback(hasCode, st, exchangeOk) ==
    /\ authServersUp > 0
    /\ cbCount' = cbCount + 1
    /\ IF hasCode /\ exchangeOk
         THEN /\ accessToken' = Token
              /\ cbPending' = cbPending + 1
         ELSE UNCHANGED <<accessToken, cbPending>>
    /\ authLog' = Append(authLog, LogEntry("handleCallback", 0,
                                           IF ~hasCode THEN "noCode"
                                           ELSE IF ~exchangeOk THEN "exchange" ELSE "nil",
                                           <<"state=", st>>, FALSE))
    /\ UNCHANGED <<cfgVars, otherVars, authPanic, ctxVars, inVars, frVars, inChan, hsVars, swVars, opVars,
                   now, ledgerVars, oidcConfig, authServer, authCompleteClosed,
                   authServersUp, waiters, pathChan, outChan>>

\* the browser's callback request arrives at the local server with the state
\* of the authorization URL
AuthCallback(hasCode, exchangeOk) ==
    /\ cbCount < MaxCallbacks
    /\ handleCallback(hasCode, GeneratedState, exchangeOk)

\* any callback request arrives at the local server: with or without a code,
\* with the generated state or another one
AuthCallbackAny(hasCode, st, exchangeOk) ==
    /\ cbCount < MaxFlowCallbacks
    /\ handleCallback(hasCode, st, exchangeOk)

\* the goroutine handleCallback starts: sleep, a.shutdown(), close(a.authCompleteChan)
AuthCallbackFinish ==
    /\ cbPending > 0
    /\ cbPending' = cbPending - 1
    /\ authServer' = "shutdown"
    /\ authServersUp' = IF authServer = "serving" THEN authServersUp - 1 ELSE authServersUp
    /\ authCompleteClosed' = TRUE
    /\ authPanic' = (authPanic \/ authCompleteClosed)
    /\ UNCHANGED <<cfgVars, otherVars, ctxVars, inVars, frVars, inChan, hsVars, swVars, opVars,
                   now, ledgerVars, oidcConfig, accessToken, cbCount, authLog, waiters,
                   pathChan, outChan>>

\* the waiter of the k-th started flow returns: <-a.authCompleteChan on the
\* one channel NewAuthManager made, which handleCallback's goroutine closes
WaiterReturn(k) ==
    /\ k \in 1..Len(waiters)
    /\ waiters[k] = "waiting"
    /\ authCompleteClosed
    /\ waiters' = [waiters EXCEPT ![k] = "returned"]
    /\ UNCHANGED <<cfgVars, otherVars, authPanic, ctxVars, inVars, frVars, inChan, hsVars, swVars, opVars,
                   now, ledgerVars, flowVars, authServersUp, authLog, pathChan, outChan>>

\* the goroutine startAuthServer starts: <-ctx.Done(), a.server.Shutdown
AuthServerCtxShutdown ==
    /\ authServer = "serving"
    /\ CtxDone
    /\ authServer' = "shutdown"
    /\ authServersUp' = authServersUp - 1
    /\ UNCHANGED <<cfgVars, otherVars, authPanic, ctxVars, inVars, frVars, inChan, hsVars, swVars, opVars,
                   now, ledgerVars, oidcConfig, accessToken, cbPending, cbCount,
                   authCompleteClosed, authLog, waiters, pathChan, outChan>>

(* -------------------------- JSON-RPC helpers --------------------------- *)
\* the smallest int of the model's integers stands for the smallest int64
MinInt == -2147483647
\* int(f) of a float64 that no int represents (NaN here) is implementation
\* dependent: the smallest int on amd64, 0 on arm64
ImplDependentInts == {MinInt, 0}

\* strconv of the integers that occur
Itoa(n) == CASE n = -1 -> "-1" [] n = 7 -> "7"
             [] n = MinInt -> "-9223372036854775808" [] OTHER -> "0"

\* strconv.ParseFloat(v, 64) of the texts that occur: the float64 as the
\* integer it rounds to, or NaN
ParseFloat(v) ==
    CASE v \in {"7", "7.0"} -> [err |-> FALSE, nan |-> FALSE, round |-> 7]
      [] v = "NaN" -> [err |-> FALSE, nan |-> TRUE, round |-> 0]
      [] OTHER -> [err |-> TRUE, nan |-> FALSE, round |-> 0]

\* int(math.Round(f)); conv is what the build gives for a float64 that no
\* int represents
RoundToInt(f, conv) == IF f.nan THEN conv ELSE f.round

\* the id value after json.Unmarshal into map[string]interface{}: a float64
\* for a JSON number, a string for a JSON string, anything else otherwise
idVal(jsonStr, i) ==
    IF jsonStr[i + 1] = "\""
      THEN [type |-> "string", v |-> jsonStr[i + 2]]
    ELSE IF jsonStr[i + 1] \in {"7", "7.0"}
      THEN [type |-> "float64", v |-> jsonStr[i + 1]]
    ELSE [type |-> "other", v |-> jsonStr[i + 1]]

\* getMessageID: the top-level id of the message as an int, else -1
getMessageID(jsonStr, conv) ==
    IF Len(jsonStr) < 2 \/ jsonStr[1] # "{" \/ jsonStr[Len(jsonStr)] # "}" THEN -1
    ELSE IF jsonStr[2] # "id" THEN -1
    ELSE LET val == idVal(jsonStr, 2)
         IN  CASE val.type = "float64" -> RoundToInt(ParseFloat(val.v), conv)
               [] val.type = "string" ->
                    IF ParseFloat(val.v).err THEN -1
                    ELSE RoundToInt(ParseFloat(val.v), conv)
               [] OTHER -> -1

\* createAuthError
createAuthError(id, url) ==
    [Result |-> [Content |-> <<[Type |-> "text",
                                Text |-> <<"This user is currently unauthorized to perform this operation. Please tell them to go to ">>
                                         \o url
                                         \o <<" to authenticate. Then come back and tell you to try again.">>]>>,
                 IsError |-> TRUE],
     JSONRPC |-> "2.0",
     ID |-> id]

\* json.Marshal of a JSONRPCResponse: the fields in declaration order
jsonMarshal(r) ==
    <<"{\"result\":{\"content\":[{\"type\":\"", r.Result.Content[1].Type, "\",\"text\":\"">>
    \o r.Result.Content[1].Text
    \o <<"\"}],\"isError\":", IF r.Result.IsError THEN "true" ELSE "false",
         "},\"jsonrpc\":\"", r.JSONRPC, "\",\"id\":", Itoa(r.ID), "}">>

(* --------------------------- HTTPPostSender ---------------------------- *)
\* phase 1 as a select with a default case: HTTPPostSender goes on with an
\* empty path when no endpoint is waiting on the channel
HSRecvEndpoint_NoWait ==
    /\ hsPc = "waitEndpoint"
    /\ IF postPathChan # <<>>
         THEN /\ postPathChan' = Tail(postPathChan)
              /\ pathRecv' = Append(pathRecv, Head(postPathChan))
              /\ hsURL' = EndpointURL(Host, Head(postPathChan))
         ELSE /\ UNCHANGED <<postPathChan, pathRecv>>
              /\ hsURL' = Host
    /\ hsPc' = "loop"
    /\ UNCHANGED <<bodiesOpen, cfgVars, otherVars, authPanic, ctxVars, inVars, frVars, inChan, hsMsg, hsOut, hsRet, posts, resp200,
                   swVars, opVars, now, authVars, pathSent, outChan>>

\* phase 1, case endpointPath = <-hs.endpointChan, then url.Parse(host + path)
HSRecvEndpoint ==
    /\ hsPc = "waitEndpoint"
    /\ postPathChan # <<>>
    /\ postPathChan' = Tail(postPathChan)
    /\ pathRecv' = Append(pathRecv, Head(postPathChan))
    /\ IF UrlParseOk(EndpointURL(Host, Head(postPathChan)))
         THEN /\ hsURL' = EndpointURL(Host, Head(postPathChan))
              /\ hsPc' = "loop"
              /\ UNCHANGED hsRet
         ELSE /\ hsPc' = "done"
              /\ hsRet' = "urlErr"
              /\ UNCHANGED hsURL
    /\ UNCHANGED <<bodiesOpen, cfgVars, otherVars, authPanic, ctxVars, inVars, frVars, inChan, hsMsg, hsOut, posts, resp200,
                   swVars, opVars, now, authVars, pathSent, outChan>>

\* case <-ctx.Done() of either select: return ctx.Err()
HSCancel ==
    /\ hsPc \in {"waitEndpoint", "loop"}
    /\ CtxDone
    /\ hsPc' = "done"
    /\ hsRet' = "ctxErr"
    /\ UNCHANGED <<bodiesOpen, cfgVars, otherVars, authPanic, ctxVars, inVars, frVars, inChan, hsURL, hsMsg, hsOut, posts,
                   pathRecv, resp200, swVars, opVars, now, authVars, pathChan, outChan>>

\* case msg, ok := <-hs.inputChan with ok false: return nil
HSInputClosed ==
    /\ hsPc = "loop"
    /\ stdinToPost = <<>>
    /\ stdinToPostClosed
    /\ hsPc' = "done"
    /\ hsRet' = "nil"
    /\ UNCHANGED <<bodiesOpen, cfgVars, otherVars, authPanic, ctxVars, inVars, frVars, inChan, hsURL, hsMsg, hsOut, posts,
                   pathRecv, resp200, swVars, opVars, now, authVars, pathChan, outChan>>

\* the request is built without the Authorization header
BuildRequest_NoAuth(msg) ==
    [n |-> msg.n, url |-> hsURL, body |-> msg.line, auth |-> <<>>]

\* the request HTTPPostSender builds for msg: POST to the parsed URL, the
\* message as body, and the Authorization header when a token is present
BuildRequest(msg) ==
    [n |-> msg.n, url |-> hsURL, body |-> msg.line,
     auth |-> IF GetAccessToken # "" THEN <<"Bearer ", GetAccessToken>> ELSE <<>>]


\* the message is posted but left at the head of the channel
HSTakeMsg_NoDequeue ==
    /\ hsPc = "loop"
    /\ stdinToPost # <<>>
    /\ hsMsg' = Head(stdinToPost)
    /\ posts' = Append(posts, BuildRequest(Head(stdinToPost)))
    /\ hsPc' = "do"
    /\ UNCHANGED <<bodiesOpen, cfgVars, otherVars, authPanic, ctxVars, inVars, frVars, inChan, hsURL, hsOut, hsRet,
                   pathRecv, resp200, swVars, opVars, now, authVars, pathChan, outChan>>

\* case msg, ok := <-hs.inputChan with ok true: build the request, client.Do
HSTakeMsg ==
    /\ hsPc = "loop"
    /\ stdinToPost # <<>>
    /\ hsMsg' = Head(stdinToPost)
    /\ stdinToPost' = Tail(stdinToPost)
    /\ posts' = Append(posts, BuildRequest(Head(stdinToPost)))
    /\ hsPc' = "do"
    /\ UNCHANGED <<bodiesOpen, cfgVars, otherVars, authPanic, ctxVars, inVars, frVars, stdinToPostClosed, hsURL, hsOut, hsRet,
                   pathRecv, resp200, swVars, opVars, now, authVars, pathChan, outChan>>

\* a failed request makes HTTPPostSender return
HSDoError_Return ==
    /\ hsPc = "do"
    /\ hsPc' = "done"
    /\ hsRet' = "doErr"
    /\ UNCHANGED <<resp200, bodiesOpen>>
    /\ UNCHANGED <<cfgVars, otherVars, authPanic, ctxVars, inVars, frVars, inChan, hsURL, hsMsg, hsOut, posts,
                   pathRecv, swVars, opVars, now, authVars, pathChan, outChan>>

\* client.Do returns an error (network failure, or the context was cancelled)
HSDoError ==
    /\ hsPc = "do"
    /\ hsPc' = "loop"
    /\ UNCHANGED <<resp200, bodiesOpen>>
    /\ UNCHANGED <<cfgVars, otherVars, authPanic, ctxVars, inVars, frVars, inChan, hsURL, hsMsg, hsOut, hsRet, posts,
                   pathRecv, swVars, opVars, now, authVars, pathChan, outChan>>

\* the body of a 202 response is forwarded like that of a 200
ResponseOutput_Forward202(resp, readOk, ch, msg, conv) ==
    CASE resp.status \in {200, 202} ->
           IF readOk THEN [src |-> "http200", val |-> resp.body]
                     ELSE [src |-> "none", val |-> <<>>]
      [] resp.status \in {401, 403} ->
           IF ch.err = "nil"
             THEN [src |-> "auth",
                   val |-> jsonMarshal(createAuthError(getMessageID(msg.line, conv), ch.authURL))]
             ELSE [src |-> "none", val |-> <<>>]
      [] OTHER -> [src |-> "none", val |-> <<>>]

\* what the switch on resp.StatusCode leaves to be sent on hs.outputChan
\* ("none": nothing), given whether io.ReadAll succeeded and the challenge result
ResponseOutput(resp, readOk, ch, msg, conv) ==
    CASE resp.status = 200 ->
           IF readOk THEN [src |-> "http200", val |-> resp.body]
                     ELSE [src |-> "none", val |-> <<>>]
      [] resp.status = 202 -> [src |-> "none", val |-> <<>>]
      [] resp.status \in {401, 403} ->
           IF ch.err = "nil"
             THEN [src |-> "auth",
                   val |-> jsonMarshal(createAuthError(getMessageID(msg.line, conv), ch.authURL))]
             ELSE [src |-> "none", val |-> <<>>]
      [] OTHER -> [src |-> "none", val |-> <<>>]

\* the 401/403 case leaves the loop body by continue when HandleAuthChallenge
\* returns an error, which skips the io.Copy and resp.Body.Close that follow
\* the switch
HandlerContinues(resp, ch) == resp.status \in {401, 403} /\ ch.err # "nil"

\* client.Do returns a response: the switch on resp.StatusCode; the body stays
\* open across the send on hs.outputChan and is drained and closed after it.
\* The discovery request carries ctx, so it fails once the context is done.
HSResponse(resp, readOk, disc, prov) ==
    /\ hsPc = "do"
    /\ CtxDone => disc = "fail"
    /\ resp200' = IF resp.status = 200
                    THEN Append(resp200, [n |-> hsMsg.n, body |-> resp.body, read |-> readOk])
                    ELSE resp200
    /\ \E conv \in ImplDependentInts :
       LET ch == HandleAuthChallenge(resp, disc, prov, now)
           out == ResponseOutput(resp, readOk, ch, hsMsg, conv)
       IN  /\ IF resp.status \in {401, 403}
                THEN /\ authAttempts' = ch.attempts
                     /\ lastAuthAttempt' = ch.last
                     /\ oidcConfig' = ch.oidc
                     /\ authServer' = ch.server
                     /\ authServersUp' = ch.up
                     /\ waiters' = IF ch.err = "nil" THEN Append(waiters, "waiting")
                                                     ELSE waiters
                     /\ authLog' = Append(authLog, LogEntry("HandleAuthChallenge", hsMsg.n,
                                                            ch.err, ch.authURL, ch.fetched))
                ELSE UNCHANGED <<authAttempts, lastAuthAttempt, oidcConfig, authServer,
                                 authServersUp, authLog, waiters>>
           /\ hsOut' = out
           /\ hsPc' = IF out.src = "none" THEN "loop" ELSE "sendOut"
           /\ bodiesOpen' = IF out.src # "none" \/ HandlerContinues(resp, ch)
                              THEN bodiesOpen + 1 ELSE bodiesOpen
    /\ UNCHANGED <<cfgVars, otherVars, authPanic, ctxVars, inVars, frVars, inChan, hsURL, hsMsg, hsRet, posts,
                   pathRecv, swVars, opVars, now, accessToken, cbPending, cbCount,
                   authCompleteClosed, pathChan, outChan>>

\* the value is dropped instead of being sent
HSSendOut_Drop ==
    /\ hsPc = "sendOut"
    /\ hsPc' = "loop"
    /\ bodiesOpen' = bodiesOpen - 1
    /\ UNCHANGED <<cfgVars, otherVars, authPanic, ctxVars, inVars, frVars, inChan, hsURL, hsMsg, hsOut, hsRet, posts,
                   pathRecv, resp200, swVars, opVars, now, authVars, pathChan, outChan>>

\* hs.outputChan <- bodyString / authErrStr (a plain send), then drain and close
HSSendOut ==
    /\ hsPc = "sendOut"
    /\ Len(stdoutChan) < StdoutCap
    /\ stdoutChan' = Append(stdoutChan, hsOut)
    /\ stdoutHist' = Append(stdoutHist, hsOut)
    /\ hsPc' = "loop"
    /\ bodiesOpen' = bodiesOpen - 1
    /\ UNCHANGED <<cfgVars, otherVars, authPanic, ctxVars, inVars, frVars, inChan, hsURL, hsMsg, hsOut, hsRet, posts,
                   pathRecv, resp200, swVars, opVars, now, authVars, pathChan>>

(* ------------------------------ SSEWorker ------------------------------ *)
\* the goroutine calling sw.client.SubscribeChan("messages", msgChan) returns
SSESubscribe(ok) ==
    /\ sseSub = "subscribing"
    /\ sseSub' = IF ok THEN "ok" ELSE "failed"
    /\ UNCHANGED <<cfgVars, otherVars, authPanic, ctxVars, inVars, frVars, inChan, hsVars, swPc, swMsg, endpointSent,
                   swRet, sseRecv, opVars, now, authVars, pathChan, outChan>>

\* the SSE library closes the event channel
SSEClose ==
    /\ sseSub = "ok"
    /\ sseSub' = "closed"
    /\ UNCHANGED <<cfgVars, otherVars, authPanic, ctxVars, inVars, frVars, inChan, hsVars, swPc, swMsg, endpointSent,
                   swRet, sseRecv, opVars, now, authVars, pathChan, outChan>>

\* case event, ok := <-msgChan with ok true (msgChan is unbuffered: the library's
\* send and this receive are one step), up to the send it chooses
SWRecv(e) ==
    /\ swPc = "recv"
    /\ sseSub = "ok"
    /\ Len(sseRecv) < MaxEvents
    /\ swMsg' = e
    /\ sseRecv' = Append(sseRecv, e)
    /\ swPc' = IF IsEndpointLike(e)
                 THEN (IF endpointSent THEN "recv" ELSE "sendEndpoint")
                 ELSE "sendOutput"
    /\ UNCHANGED <<cfgVars, otherVars, authPanic, ctxVars, inVars, frVars, inChan, hsVars, sseSub, endpointSent,
                   swRet, opVars, now, authVars, pathChan, outChan>>

\* SSEWorker returns also when the subscription has failed
SWClosed_OnFailure ==
    /\ swPc = "recv"
    /\ sseSub \in {"closed", "failed"}
    /\ swPc' = "done"
    /\ swRet' = "nil"
    /\ UNCHANGED <<cfgVars, otherVars, authPanic, ctxVars, inVars, frVars, inChan, hsVars, sseSub, swMsg,
                   endpointSent, sseRecv, opVars, now, authVars, pathChan, outChan>>

\* case event, ok := <-msgChan with ok false: return nil
SWClosed ==
    /\ swPc = "recv"
    /\ sseSub = "closed"
    /\ swPc' = "done"
    /\ swRet' = "nil"
    /\ UNCHANGED <<cfgVars, otherVars, authPanic, ctxVars, inVars, frVars, inChan, hsVars, sseSub, swMsg,
                   endpointSent, sseRecv, opVars, now, authVars, pathChan, outChan>>

\* the endpoint is sent but the latch is not set
SWSendEndpoint_NoLatch ==
    /\ swPc = "sendEndpoint"
    /\ Len(postPathChan) < PostPathCap
    /\ postPathChan' = Append(postPathChan, swMsg)
    /\ pathSent' = Append(pathSent, swMsg)
    /\ swPc' = "recv"
    /\ UNCHANGED <<cfgVars, otherVars, authPanic, ctxVars, inVars, frVars, inChan, hsVars, sseSub, swMsg, swRet,
                   endpointSent, sseRecv, opVars, now, authVars, outChan>>

\* case sw.endpointChan <- msgStr: endpointSent = true
SWSendEndpoint ==
    /\ swPc = "sendEndpoint"
    /\ Len(postPathChan) < PostPathCap
    /\ postPathChan' = Append(postPathChan, swMsg)
    /\ pathSent' = Append(pathSent, swMsg)
    /\ endpointSent' = TRUE
    /\ swPc' = "recv"
    /\ UNCHANGED <<cfgVars, otherVars, authPanic, ctxVars, inVars, frVars, inChan, hsVars, sseSub, swMsg, swRet,
                   sseRecv, opVars, now, authVars, outChan>>

\* the message goes to the front of the channel
SWSendOutput_Front ==
    /\ swPc = "sendOutput"
    /\ Len(stdoutChan) < StdoutCap
    /\ stdoutChan' = <<[src |-> "sse", val |-> swMsg]>> \o stdoutChan
    /\ stdoutHist' = <<[src |-> "sse", val |-> swMsg]>> \o stdoutHist
    /\ swPc' = "recv"
    /\ UNCHANGED <<cfgVars, otherVars, authPanic, ctxVars, inVars, frVars, inChan, hsVars, sseSub, swMsg,
                   endpointSent, swRet, sseRecv, opVars, now, authVars, pathChan>>

\* case sw.outputChan <- msgStr
SWSendOutput ==
    /\ swPc = "sendOutput"
    /\ Len(stdoutChan) < StdoutCap
    /\ stdoutChan' = Append(stdoutChan, [src |-> "sse", val |-> swMsg])
    /\ stdoutHist' = Append(stdoutHist, [src |-> "sse", val |-> swMsg])
    /\ swPc' = "recv"
    /\ UNCHANGED <<cfgVars, otherVars, authPanic, ctxVars, inVars, frVars, inChan, hsVars, sseSub, swMsg,
                   endpointSent, swRet, sseRecv, opVars, now, authVars, pathChan>>

\* case <-ctx.Done() of any of the three selects: return ctx.Err()
SWCancel ==
    /\ swPc \in {"recv", "sendEndpoint", "sendOutput"}
    /\ CtxDone
    /\ swPc' = "done"
    /\ swRet' = "ctxErr"
    /\ UNCHANGED <<cfgVars, otherVars, authPanic, ctxVars, inVars, frVars, inChan, hsVars, sseSub, swMsg,
                   endpointSent, sseRecv, opVars, now, authVars, pathChan, outChan>>

(* ----------------------------- OutputProxy ----------------------------- *)
\* the line OutputProxy writes for a message
OutputLine(msg) == msg \o <<"\n">>

\* the message is written without the newline
OPWrite_NoNewline(ok) ==
    /\ opPc = "loop"
    /\ stdoutChan # <<>>
    /\ stdoutChan' = Tail(stdoutChan)
    /\ IF ok
         THEN /\ stdout' = Append(stdout, [src |-> Head(stdoutChan).src,
                                           val |-> Head(stdoutChan).val])
              /\ UNCHANGED <<opPc, opRet>>
         ELSE /\ opPc' = "done"
              /\ opRet' = "writeErr"
              /\ UNCHANGED stdout
    /\ UNCHANGED <<cfgVars, otherVars, authPanic, ctxVars, inVars, frVars, inChan, hsVars, swVars, now, authVars,
                   pathChan, stdoutHist>>

\* the message is written but left at the head of the channel
OPWrite_NoDequeue(ok) ==
    /\ opPc = "loop"
    /\ stdoutChan # <<>>
    /\ IF ok
         THEN /\ stdout' = Append(stdout, [src |-> Head(stdoutChan).src,
                                           val |-> Head(stdoutChan).val \o <<"\n">>])
              /\ UNCHANGED <<opPc, opRet>>
         ELSE /\ opPc' = "done"
              /\ opRet' = "writeErr"
              /\ UNCHANGED stdout
    /\ UNCHANGED <<cfgVars, otherVars, authPanic, ctxVars, inVars, frVars, inChan, hsVars, swVars, now, authVars,
                   pathChan, outChan>>

\* case msg, ok := <-op.inputChan: WriteString(msg + "\n") and Flush, which
\* succeed (ok) or fail (return err)
OPWrite(ok) ==
    /\ opPc = "loop"
    /\ stdoutChan # <<>>
    /\ stdoutChan' = Tail(stdoutChan)
    /\ IF ok
         THEN /\ stdout' = Append(stdout, [src |-> Head(stdoutChan).src,
                                           val |-> OutputLine(Head(stdoutChan).val)])
              /\ UNCHANGED <<opPc, opRet>>
         ELSE /\ opPc' = "done"
              /\ opRet' = "writeErr"
              /\ UNCHANGED stdout
    /\ UNCHANGED <<cfgVars, otherVars, authPanic, ctxVars, inVars, frVars, inChan, hsVars, swVars, now, authVars,
                   pathChan, stdoutHist>>

\* case <-ctx.Done(): return ctx.Err()
OPCancel ==
    /\ opPc = "loop"
    /\ CtxDone
    /\ opPc' = "done"
    /\ opRet' = "ctxErr"
    /\ UNCHANGED <<cfgVars, otherVars, authPanic, ctxVars, inVars, frVars, inChan, hsVars, swVars, stdout, now,
                   authVars, pathChan, outChan>>

(* ----------------------------- orchestrator ---------------------------- *)
AllWorkersDone ==
    /\ frPc = "done" /\ hsPc = "done" /\ opPc = "done"
    /\ swPc \in {"done", "absent"}

\* runWorkersAndWait: wg.Wait() returns, the deferred cancel() runs, Start returns
StartReturn ==
    /\ ~startRet
    /\ AllWorkersDone
    /\ startRet' = TRUE
    /\ childDone' = TRUE
    /\ UNCHANGED <<cfgVars, otherVars, authPanic, parentDone, inVars, frVars, inChan, hsVars, swVars, opVars, now,
                   authVars, pathChan, outChan>>

(* ----------------------------- ProxyServer ---------------------------- *)
\* p.ServerURL and what extractBaseURL gives for it
ServerURL == <<"http://h", "/", "sse">>
extractBaseURL(fullURL) == <<fullURL[1]>>

PathRel == <<"/", "messages">>
PathAbs == <<"http://other", "/", "messages">>
\* the events the SSE server may send: endpoint events with a relative and an
\* absolute URL, a message, an event without a type and one of unknown type
PxEvents ==
    { [type |-> "endpoint", data |-> PathRel],
      [type |-> "endpoint", data |-> PathAbs],
      [type |-> "message", data |-> DataHello],
      [type |-> "", data |-> DataHello],
      [type |-> "ping", data |-> PathRel] }

\* the client writes one more line to p.InputReader
PxStdinWrite(l) ==
    /\ inputState = "open"
    /\ Len(InputReader) + Len(sent) + (IF irPc = "send" THEN 1 ELSE 0)
          + (IF msPc \in {"check", "toSelect", "wait", "post"} THEN 1 ELSE 0) < MaxLines
    /\ InputReader' = Append(InputReader, l)
    /\ UNCHANGED <<engineVars, pairVars, inputState, irVars, scVars, connVars, OutputWriter,
                   DoneChanClosed, ErrorChan, startErr, msVars, stopPc, pxHist>>

\* the client closes the input, or reading it starts to fail
PxStdinEnd(how) ==
    /\ inputState = "open"
    /\ inputState' = how
    /\ UNCHANGED <<engineVars, pairVars, InputReader, irVars, scVars, connVars, OutputWriter,
                   DoneChanClosed, ErrorChan, startErr, msVars, stopPc, pxHist>>

\* the server ends the SSE response, or reading it starts to fail
SSEBodyEnd(how) ==
    /\ sseBody = "open"
    /\ sseBody' = how
    /\ UNCHANGED <<engineVars, pairVars, pxInVars, irVars, scPc, scErr, connVars, OutputWriter,
                   DoneChanClosed, ErrorChan, startErr, msVars, stopPc, pxHist>>

\* Start's input goroutine: scanner.Scan() returns a line, then the select
\* with default: return when DoneChan is closed, else go on to the send
IRScanLine ==
    /\ irPc = "scan"
    /\ InputReader # <<>>
    /\ InputReader' = Tail(InputReader)
    /\ IF DoneChanClosed
         THEN /\ irPc' = "done"
              /\ UNCHANGED irLine
         ELSE /\ irPc' = "send"
              /\ irLine' = Head(InputReader)
    /\ UNCHANGED <<engineVars, pairVars, inputState, scVars, connVars, OutputWriter,
                   DoneChanClosed, ErrorChan, startErr, msVars, stopPc, pxHist>>

\* scanner.Scan() returns false: return at end of file, else report the error
IRScanEnd ==
    /\ irPc = "scan"
    /\ InputReader = <<>>
    /\ inputState \in {"eof", "err"}
    /\ irPc' = IF inputState = "eof" THEN "done" ELSE "errSend"
    /\ UNCHANGED <<engineVars, pairVars, pxInVars, irLine, scVars, connVars, OutputWriter,
                   DoneChanClosed, ErrorChan, startErr, msVars, stopPc, pxHist>>

\* p.ErrorChan <- input read error, then return
IRSendErr ==
    /\ irPc = "errSend"
    /\ Len(ErrorChan) < ErrorChanCap
    /\ ErrorChan' = Append(ErrorChan, "inputErr")
    /\ irPc' = "done"
    /\ UNCHANGED <<engineVars, pairVars, pxInVars, irLine, scVars, connVars, OutputWriter,
                   DoneChanClosed, startErr, msVars, stopPc, pxHist>>

\* handleSSEConnection up to the scan loop: p.HTTPClient.Do answers
SCConnect(res) ==
    /\ scPc = "connect"
    /\ IF res = "ok"
         THEN /\ sseBody' = "open"
              /\ scPc' = "scan"
              /\ UNCHANGED scErr
         ELSE /\ scPc' = "errSend"
              /\ scErr' = res
              /\ UNCHANGED sseBody
    /\ UNCHANGED <<engineVars, pairVars, pxInVars, irVars, connVars, OutputWriter,
                   DoneChanClosed, ErrorChan, startErr, msVars, stopPc, pxHist>>

\* an event of unknown type is written to the output like a message
processEvent_DefaultWrites(eventType, data) ==
    CASE eventType = "endpoint" ->
           [PostURL |-> IF HasPrefix(data, <<"/">>) THEN extractBaseURL(ServerURL) \o data
                                                   ELSE data,
            Connected |-> TRUE, signal |-> TRUE, out |-> OutputWriter]
      [] OTHER ->
           [PostURL |-> PostURL, Connected |-> Connected, signal |-> FALSE,
            out |-> Append(OutputWriter, OutputLine(data))]

\* processEvent: the fields and the output it leaves, and whether it offers a
\* value on ConnectedChan
processEvent(eventType, data) ==
    CASE eventType = "endpoint" ->
           [PostURL |-> IF HasPrefix(data, <<"/">>) THEN extractBaseURL(ServerURL) \o data
                                                   ELSE data,
            Connected |-> TRUE, signal |-> TRUE, out |-> OutputWriter]
      [] eventType = "message" ->
           [PostURL |-> PostURL, Connected |-> Connected, signal |-> FALSE,
            out |-> Append(OutputWriter, OutputLine(data))]
      [] OTHER ->
           [PostURL |-> PostURL, Connected |-> Connected, signal |-> FALSE,
            out |-> OutputWriter]

\* the scan loop reads the lines of one event up to its empty line while
\* DoneChan is open, and calls processEvent; the non-blocking send on the
\* unbuffered ConnectedChan succeeds only if the sender is waiting on it
SCEvent(eventType, data) ==
    /\ scPc = "scan"
    /\ sseBody = "open"
    /\ ~DoneChanClosed
    /\ Len(eventLog) < MaxEvents
    /\ LET r == processEvent(eventType, data)
       IN  /\ PostURL' = r.PostURL
           /\ Connected' = r.Connected
           /\ OutputWriter' = r.out
           /\ IF r.signal /\ msPc = "wait"
                THEN /\ msPc' = "post"
                     /\ msConnected' = TRUE
                ELSE UNCHANGED <<msPc, msConnected>>
    /\ eventLog' = Append(eventLog, [type |-> eventType, data |-> data])
    /\ UNCHANGED <<engineVars, pairVars, pxInVars, irVars, scVars, DoneChanClosed, ErrorChan,
                   startErr, msInput, stopPc, sent>>

\* scanner.Scan() returns a line after DoneChan was closed: return
SCLineAfterDone ==
    /\ scPc = "scan"
    /\ sseBody = "open"
    /\ DoneChanClosed
    /\ scPc' = "done"
    /\ UNCHANGED <<engineVars, pairVars, pxInVars, irVars, sseBody, scErr, connVars,
                   OutputWriter, DoneChanClosed, ErrorChan, startErr, msVars, stopPc, pxHist>>

\* scanner.Scan() returns false: the stream ended or failed
SCScanEnd ==
    /\ scPc = "scan"
    /\ sseBody \in {"closed", "err"}
    /\ scPc' = "errSend"
    /\ scErr' = IF sseBody = "err" THEN "streamErr" ELSE "serverClosed"
    /\ UNCHANGED <<engineVars, pairVars, pxInVars, irVars, sseBody, connVars, OutputWriter,
                   DoneChanClosed, ErrorChan, startErr, msVars, stopPc, pxHist>>

\* p.ErrorChan <- the error, then return
SCSendErr ==
    /\ scPc = "errSend"
    /\ Len(ErrorChan) < ErrorChanCap
    /\ ErrorChan' = Append(ErrorChan, scErr)
    /\ scPc' = "done"
    /\ UNCHANGED <<engineVars, pairVars, pxInVars, irVars, sseBody, scErr, connVars,
                   OutputWriter, DoneChanClosed, startErr, msVars, stopPc, pxHist>>

\* Start: return <-p.ErrorChan
StartRecvError ==
    /\ startErr = "none"
    /\ ErrorChan # <<>>
    /\ startErr' = Head(ErrorChan)
    /\ ErrorChan' = Tail(ErrorChan)
    /\ UNCHANGED <<engineVars, pairVars, pxInVars, irVars, scVars, connVars, OutputWriter,
                   DoneChanClosed, msVars, stopPc, pxHist>>

\* handleMessageSending, case input, ok := <-inputChan with ok true (inputChan
\* is unbuffered: the reader's send and this receive are one step)
MSRecvInput ==
    /\ msPc = "loop"
    /\ irPc = "send"
    /\ msInput' = irLine
    /\ irPc' = "scan"
    /\ msPc' = "check"
    /\ UNCHANGED <<engineVars, pairVars, pxInVars, irLine, scVars, connVars, OutputWriter,
                   DoneChanClosed, ErrorChan, startErr, msConnected, stopPc, pxHist>>

\* case input, ok := <-inputChan with ok false (the reader's deferred close)
MSInputClosed ==
    /\ msPc = "loop"
    /\ irPc = "done"
    /\ msPc' = "done"
    /\ UNCHANGED <<engineVars, pairVars, pxInVars, irVars, scVars, connVars, OutputWriter,
                   DoneChanClosed, ErrorChan, startErr, msInput, msConnected, stopPc, pxHist>>

\* case <-p.DoneChan of the loop's select
MSDone ==
    /\ msPc = "loop"
    /\ DoneChanClosed
    /\ msPc' = "done"
    /\ UNCHANGED <<engineVars, pairVars, pxInVars, irVars, scVars, connVars, OutputWriter,
                   DoneChanClosed, ErrorChan, startErr, msInput, msConnected, stopPc, pxHist>>

\* isConnected
isConnected == Connected /\ PostURL # <<>>

\* waitForConnection: return true if isConnected, else go on to the select
waitForConnection ==
    /\ msPc = "check"
    /\ IF isConnected
         THEN /\ msPc' = "post"
              /\ msConnected' = TRUE
         ELSE /\ msPc' = "toSelect"
              /\ UNCHANGED msConnected
    /\ UNCHANGED <<engineVars, pairVars, pxInVars, irVars, scVars, connVars, OutputWriter,
                   DoneChanClosed, ErrorChan, startErr, msInput, stopPc, pxHist>>

\* waitForConnection reaches its select and blocks in it
MSEnterSelect ==
    /\ msPc = "toSelect"
    /\ msPc' = "wait"
    /\ UNCHANGED <<engineVars, pairVars, pxInVars, irVars, scVars, connVars, OutputWriter,
                   DoneChanClosed, ErrorChan, startErr, msInput, msConnected, stopPc, pxHist>>

\* waitForConnection's select, case <-time.After(timeout): return false
MSWaitTimeout ==
    /\ msPc = "wait"
    /\ msPc' = "post"
    /\ msConnected' = FALSE
    /\ UNCHANGED <<engineVars, pairVars, pxInVars, irVars, scVars, connVars, OutputWriter,
                   DoneChanClosed, ErrorChan, startErr, msInput, stopPc, pxHist>>

\* waitForConnection's select, case <-p.DoneChan: return false
MSWaitDone ==
    /\ msPc = "wait"
    /\ DoneChanClosed
    /\ msPc' = "post"
    /\ msConnected' = FALSE
    /\ UNCHANGED <<engineVars, pairVars, pxInVars, irVars, scVars, connVars, OutputWriter,
                   DoneChanClosed, ErrorChan, startErr, msInput, stopPc, pxHist>>

\* sendMessage: an error without a request when PostURL is empty, else the
\* POST, whose failure is only logged
sendMessage(res) ==
    /\ msPc = "post"
    /\ sent' = Append(sent, [url |-> PostURL, msg |-> msInput, connected |-> msConnected,
                             err |-> IF PostURL = <<>> THEN "noURL" ELSE res])
    /\ msPc' = "loop"
    /\ UNCHANGED <<engineVars, pairVars, pxInVars, irVars, scVars, connVars, OutputWriter,
                   DoneChanClosed, ErrorChan, startErr, msInput, msConnected, stopPc,
                   eventLog>>

\* Stop: close(p.DoneChan)
StopCall ==
    /\ stopPc = "none"
    /\ DoneChanClosed' = TRUE
    /\ stopPc' = "waiting"
    /\ UNCHANGED <<engineVars, pairVars, pxInVars, irVars, scVars, connVars, OutputWriter,
                   ErrorChan, startErr, msVars, pxHist>>

WaitGroupZero == irPc = "done" /\ scPc = "done" /\ msPc = "done"

\* Stop: p.WaitGroup.Wait() returns
StopReturn ==
    /\ stopPc = "waiting"
    /\ WaitGroupZero
    /\ stopPc' = "returned"
    /\ UNCHANGED <<engineVars, pairVars, pxInVars, irVars, scVars, connVars, OutputWriter,
                   DoneChanClosed, ErrorChan, startErr, msVars, pxHist>>

(* --------------------------- specifications ---------------------------- *)
HSAnswer ==
    \/ HSDoError
    \/ \E resp \in Responses, readOk \in BOOLEAN, disc \in {"ok", "fail"}, prov \in {"ok", "fail"} :
           HSResponse(resp, readOk, disc, prov)

OPWriteAny == \E ok \in BOOLEAN : OPWrite(ok)

\* The pipeline in either mode, with a client that writes up to MaxLines
\* lines, an MCP server that answers every way it can, the browser callback,
\* and an SSE server that sends at most one event.
Next ==
    \/ \E l \in Lines : StdinWrite(l)
    \/ \E how \in {"eof", "err"} : StdinEnd(how)
    \/ ParentCancel
    \/ Tick
    \/ FRScanLine
    \/ FRScanEnd
    \/ FRSend
    \/ HSRecvEndpoint
    \/ HSCancel
    \/ HSInputClosed
    \/ HSTakeMsg
    \/ HSAnswer
    \/ HSSendOut
    \/ \E hasCode \in BOOLEAN, exchangeOk \in BOOLEAN : AuthCallback(hasCode, exchangeOk)
    \/ AuthCallbackFinish
    \/ \E k \in 1..MaxLines : WaiterReturn(k)
    \/ AuthServerCtxShutdown
    \/ \E ok \in BOOLEAN : SSESubscribe(ok)
    \/ \E e \in Events : sseRecv = <<>> /\ SWRecv(e)
    \/ SWSendEndpoint
    \/ SWSendOutput
    \/ SWCancel
    \/ OPWriteAny
    \/ OPCancel
    \/ StartReturn

Spec == Init /\ [][Next]_vars

\* The pipeline in either mode while no time passes and the browser never
\* calls back, with an SSE server that sends up to MaxEvents events and may
\* close the stream; the input ends only by end of file and writes to the
\* output succeed.
NextSse ==
    \/ \E l \in Lines : StdinWrite(l)
    \/ StdinEnd("eof")
    \/ ParentCancel
    \/ FRScanLine
    \/ FRScanEnd
    \/ FRSend
    \/ HSRecvEndpoint
    \/ HSCancel
    \/ HSInputClosed
    \/ HSTakeMsg
    \/ HSAnswer
    \/ HSSendOut
    \/ AuthServerCtxShutdown
    \/ \E ok \in BOOLEAN : SSESubscribe(ok)
    \/ SSEClose
    \/ \E e \in SseEvents : SWRecv(e)
    \/ SWClosed
    \/ SWSendEndpoint
    \/ SWSendOutput
    \/ SWCancel
    \/ OPWrite(TRUE)
    \/ OPCancel
    \/ StartReturn

SpecSse == Init /\ [][NextSse]_vars

\* every goroutine that can take a step eventually takes one, and a request
\* handed to client.Do is eventually answered (by a response or an error);
\* nothing obliges the client, the SSE server, the browser or the caller to act
Fairness ==
    /\ WF_vars(FRScanLine) /\ WF_vars(FRScanEnd) /\ WF_vars(FRSend)
    /\ WF_vars(HSRecvEndpoint) /\ WF_vars(HSCancel) /\ WF_vars(HSInputClosed)
    /\ WF_vars(HSTakeMsg) /\ WF_vars(HSAnswer) /\ WF_vars(HSSendOut)
    /\ WF_vars(SWSendEndpoint) /\ WF_vars(SWSendOutput) /\ WF_vars(SWCancel)
    /\ WF_vars(OPWriteAny) /\ WF_vars(OPCancel)
    /\ WF_vars(StartReturn)

\* The pipeline of Spec while no time passes and the browser never calls back.
NextLive ==
    \/ \E l \in Lines : StdinWrite(l)
    \/ \E how \in {"eof", "err"} : StdinEnd(how)
    \/ ParentCancel
    \/ FRScanLine
    \/ FRScanEnd
    \/ FRSend
    \/ HSRecvEndpoint
    \/ HSCancel
    \/ HSInputClosed
    \/ HSTakeMsg
    \/ HSAnswer
    \/ HSSendOut
    \/ AuthServerCtxShutdown
    \/ \E ok \in BOOLEAN : SSESubscribe(ok)
    \/ \E e \in Events : sseRecv = <<>> /\ SWRecv(e)
    \/ SWSendEndpoint
    \/ SWSendOutput
    \/ SWCancel
    \/ OPWriteAny
    \/ OPCancel
    \/ StartReturn

FairSpec == Init /\ [][NextLive]_vars /\ Fairness

\* The AuthManager on its own, as a caller holding it may use it: admission
\* checks, resets and challenges in any order while time passes, the browser
\* calling back, and the context given to HandleAuthChallenge being cancelled.
HandleAuthChallengeAny ==
    \E resp \in {r \in Responses : r.status \in {401, 403}} \cup {RespNoURL},
       disc \in {"ok", "fail"}, prov \in {"ok", "fail"} :
        HandleAuthChallengeCall(resp, disc, prov)

NextAuth ==
    \/ CanAttemptAuthCall
    \/ ResetAuthAttempts
    \/ HandleAuthChallengeAny
    \/ Tick
    \/ \E hasCode \in BOOLEAN, exchangeOk \in BOOLEAN : AuthCallback(hasCode, exchangeOk)
    \/ AuthCallbackFinish
    \/ \E k \in 1..MaxCalls : WaiterReturn(k)
    \/ ParentCancel
    \/ AuthServerCtxShutdown

SpecAuth == InitAuth /\ [][NextAuth]_vars

\* The AuthManager with a user who answers challenges in the browser: up to
\* MaxFlowCallbacks callback requests of any kind reach the local server,
\* challenges arrive while time passes, and a panic ends the process.
InitCb == Init /\ useSse = FALSE

NextCb ==
    \/ ~authPanic /\ \E disc \in {"ok", "fail"} :
                        HandleAuthChallengeCall(Resp401, disc, "ok")
    \/ ~authPanic /\ Tick
    \/ ~authPanic /\ \E hasCode \in BOOLEAN, st \in {GeneratedState, ForgedState},
                          exchangeOk \in BOOLEAN : AuthCallbackAny(hasCode, st, exchangeOk)
    \/ ~authPanic /\ AuthCallbackFinish
    \/ ~authPanic /\ \E k \in 1..MaxCalls : WaiterReturn(k)

SpecCb == InitCb /\ [][NextCb]_vars

\* The pipeline in HTTP mode with a client that writes up to MaxLines
\* messages whose id is written in any way, and an MCP server that refuses
\* every POST with a 401 challenge for which the authentication flow starts
\* when the admission check permits it.
InitIds == Init /\ useSse = FALSE

NextIds ==
    \/ \E l \in IdLines : StdinWrite(l)
    \/ Tick
    \/ FRScanLine
    \/ FRSend
    \/ HSRecvEndpoint
    \/ HSTakeMsg
    \/ HSResponse(Resp401, TRUE, "ok", "ok")
    \/ HSSendOut
    \/ OPWrite(TRUE)

SpecIds == InitIds /\ [][NextIds]_vars

\* The ProxyServer after Start has launched its goroutines, with a client
\* that writes up to MaxLines lines, an SSE server that sends up to MaxEvents
\* events of any type, and a caller that may call Stop.
NextProxy ==
    \/ PxStdinWrite(LineA)
    \/ \E how \in {"eof", "err"} : PxStdinEnd(how)
    \/ \E how \in {"closed", "err"} : SSEBodyEnd(how)
    \/ IRScanLine
    \/ IRScanEnd
    \/ IRSendErr
    \/ \E res \in {"ok", "doErr", "status"} : SCConnect(res)
    \/ \E e \in PxEvents : SCEvent(e.type, e.data)
    \/ SCLineAfterDone
    \/ SCScanEnd
    \/ SCSendErr
    \/ StartRecvError
    \/ MSRecvInput
    \/ MSInputClosed
    \/ MSDone
    \/ waitForConnection
    \/ MSEnterSelect
    \/ MSWaitTimeout
    \/ MSWaitDone
    \/ \E res \in {"nil", "doErr"} : sendMessage(res)
    \/ StopCall
    \/ StopReturn

\* every goroutine of the ProxyServer that can take a step eventually takes
\* one, the SSE request is eventually answered and the timer of
\* waitForConnection eventually fires; nothing obliges the client or the SSE
\* server to send anything or to close
FairnessProxy ==
    /\ WF_vars(IRScanLine) /\ WF_vars(IRScanEnd) /\ WF_vars(IRSendErr)
    /\ WF_vars(\E res \in {"ok", "doErr", "status"} : SCConnect(res))
    /\ WF_vars(SCScanEnd) /\ WF_vars(SCSendErr) /\ WF_vars(StartRecvError)
    /\ WF_vars(MSRecvInput) /\ WF_vars(MSInputClosed) /\ WF_vars(MSDone)
    /\ WF_vars(waitForConnection) /\ WF_vars(MSEnterSelect)
    /\ WF_vars(MSWaitTimeout) /\ WF_vars(MSWaitDone)
    /\ WF_vars(\E res \in {"nil", "doErr"} : sendMessage(res))
    /\ WF_vars(StopReturn)

InitProxy == Init /\ useSse = FALSE

SpecProxy == InitProxy /\ [][NextProxy]_vars /\ FairnessProxy

\* Two AuthManagers built with any two values of MaxAuthAttempts and given
\* the same calls of CanAttemptAuth and ResetAuthAttempts at the same times.
InitPair ==
    /\ InitPipeline
    /\ useSse = FALSE
    /\ maxAuthAttempts \in 1..MaxAuthAttempts
    /\ maxAuthAttempts2 \in 1..MaxAuthAttempts

NextPair ==
    \/ PairCanAttemptAuth
    \/ PairResetAuthAttempts
    \/ Tick

SpecPair == InitPair /\ [][NextPair]_vars

(* ------------------------------- claims -------------------------------- *)
AnyWorkerReturned ==
    frPc = "done" \/ hsPc = "done" \/ opPc = "done" \/ swPc = "done"

\* C1: whenever a worker's Run returns, the shared context is cancelled, and
\* after FileReader returns at end of input Start eventually returns without
\* the caller cancelling the parent context.
C1_ReturnCancelsContext ==
    /\ AnyWorkerReturned ~> CtxDone
    /\ (frRet = "EOF") ~> startRet

\* C2: once the parent context is cancelled, every worker eventually returns
\* and Start returns.
C2_CancelStopsEveryWorker == parentDone ~> (AllWorkersDone /\ startRet)

\* C3: no POST is issued before HTTPPostSender has received the endpoint path
\* from postPathChan, and every POST goes to host followed by that path.
C3_NoPostBeforeEndpoint ==
    \A i \in 1..Len(posts) :
        /\ Len(pathRecv) >= 1
        /\ Len(pathSent) >= 1
        /\ pathRecv[1] = pathSent[1]
        /\ posts[i].url = Host \o pathRecv[1]

C3_Witness ==
    /\ useSse
    /\ Len(posts) = 2
    /\ posts[1].url = Host \o EpA

\* C4: the POSTs are issued in the order FileReader read the lines, and the
\* body of the k-th POST is the k-th line read.
C4_PostsInReadOrder ==
    /\ Len(posts) <= Len(linesRead)
    /\ \A k \in 1..Len(posts) : posts[k].body = linesRead[k]

C4_Witness ==
    /\ Len(posts) = 2
    /\ posts[1].body # posts[2].body

\* C5: for every line read at most one POST is issued, whatever the answers
\* were and whether or not an authentication completed in between.
C5_AtMostOnePostPerLine ==
    /\ \A i \in 1..Len(posts) : posts[i].n \in 1..Len(linesRead)
    /\ \A i, j \in 1..Len(posts) : i # j => posts[i].n # posts[j].n

C5_Witness ==
    /\ Len(posts) = 2
    /\ authAttempts >= 1
    /\ posts[1].auth = <<>>
    /\ posts[2].auth = <<"Bearer ", Token>>
    /\ hsPc = "loop"

Published(k) == \E i \in 1..Len(stdinToPost) : stdinToPost[i].n = k
Posted(k) == \E i \in 1..Len(posts) : posts[i].n = k
EndpointDelivered == pathSent # <<>>

\* C6: once an endpoint is delivered on postPathChan, every line published on
\* stdinToPost is eventually POSTed unless the context is cancelled, and
\* HTTPPostSender returns nil only after the closed channel is drained.
C6_PublishedLinesPosted ==
    /\ \A k \in 1..(MaxLines + 1) :
           (EndpointDelivered /\ Published(k)) ~> (Posted(k) \/ CtxDone)
    /\ [](hsRet = "nil" => (stdinToPostClosed /\ stdinToPost = <<>>))

EndpointEvents == SelectSeq(sseRecv, IsEndpointLike)
DataEvents == SelectSeq(sseRecv, LAMBDA e : ~IsEndpointLike(e))

C8_ExactlyOnePathDelivered == startRet => Len(pathSent) = 1

\* C8 amended: at most one value is ever delivered on postPathChan (the first
\* endpoint-like event in SSE mode, the configured MCP path - always - in
\* direct mode), HTTPPostSender receives from it at most once, and every POST
\* goes to the host followed by that one value.
C8_AtMostOnePathDelivered ==
    /\ Len(pathSent) <= 1
    /\ ~useSse => pathSent = <<MCPPath>>
    /\ (useSse /\ pathSent # <<>>) => (EndpointEvents # <<>> /\ pathSent[1] = EndpointEvents[1])
    /\ Len(pathRecv) <= 1
    /\ pathRecv # <<>> => pathRecv = pathSent
    /\ \A i \in 1..Len(posts) : pathRecv # <<>> /\ posts[i].url = Host \o pathSent[1]

C8_Witness ==
    /\ useSse
    /\ Len(EndpointEvents) = 2
    /\ Len(posts) = 2
    /\ posts[2].url = Host \o EndpointEvents[1]

\* a synthesized auth-challenge reply: the JSON-RPC result object with isError
\* true whose text carries the authorization URL
IsAuthReply(v) ==
    /\ Len(v) >= 2
    /\ v[1] = "{\"result\":{\"content\":[{\"type\":\""
    /\ \E i \in 1..(Len(v) - 1) : v[i] = "\"}],\"isError\":" /\ v[i + 1] = "true"
    /\ \E i \in 1..Len(v) : <<v[i]>> = OIDCDoc.authorization_endpoint

Enq200 == SelectSeq(stdoutHist, LAMBDA m : m.src = "http200")
Read200 == SelectSeq(resp200, LAMBDA r : r.read)
Out200 == SelectSeq(stdout, LAMBDA m : m.src = "http200")
PendingSend200 == IF hsPc = "sendOut" /\ hsOut.src = "http200" THEN 1 ELSE 0

\* C10 as stated: when the run is over, every 200 response has produced exactly
\* one output line equal to its body.
C10_ExactlyOneLinePer200 ==
    startRet =>
        /\ Len(Out200) = Len(resp200)
        /\ \A i \in 1..Len(Out200) : Out200[i].val = resp200[i].body \o <<"\n">>

\* C10 amended: a 200 response produces at most one enqueue on stdoutChan and
\* at most one written line, equal to its body; it produces exactly one when
\* its body is read without error, unless the context is cancelled or a write
\* to the output fails.
C10_AtMostOneLinePer200 ==
    /\ [](/\ Len(Enq200) + PendingSend200 = Len(Read200)
          /\ \A i \in 1..Len(Enq200) : Enq200[i].val = Read200[i].body
          /\ Len(Out200) <= Len(Enq200)
          /\ \A i \in 1..Len(Out200) : Out200[i].val = Enq200[i].val \o <<"\n">>)
    /\ \A n \in 1..(MaxLines + 1) :
           (Len(Read200) >= n) ~> (Len(Out200) >= n \/ CtxDone \/ opRet = "writeErr")

C10_Witness ==
    /\ ~CtxDone
    /\ Len(resp200) = 2
    /\ Len(Out200) = 2
    /\ Out200[1].val = Body200 \o <<"\n">>

Challenges == SelectSeq(authLog, LAMBDA c : c.op = "HandleAuthChallenge")
Admitted == SelectSeq(Challenges, LAMBDA c : c.err # "denied")
Started == SelectSeq(Challenges, LAMBDA c : c.err = "nil")
AuthEnq == SelectSeq(stdoutHist, LAMBDA m : m.src = "auth")
AuthOut == SelectSeq(stdout, LAMBDA m : m.src = "auth")
PendingSendAuth == IF hsPc = "sendOut" /\ hsOut.src = "auth" THEN 1 ELSE 0

\* C11 as stated: every 401 or 403 response that passes the admission check
\* produces exactly one synthesized JSON-RPC error reply.
C11_ExactlyOneReplyPerAdmitted ==
    Len(AuthEnq) + PendingSendAuth = Len(Admitted)

\* C11 amended: a 401 or 403 response that passes the admission check produces
\* at most one synthesized reply; exactly one is placed on stdoutChan when the
\* response carries a WWW-Authenticate header, the OIDC discovery succeeds and
\* the provider is initialized, and none otherwise.  The reply has isError true,
\* the id of the message, and a text carrying the authorization URL built from
\* the discovered authorization_endpoint; at most one line is written for it.
C11_OneReplyPerStartedFlow ==
    /\ Len(Started) <= Len(Admitted)
    /\ Len(AuthEnq) + PendingSendAuth = Len(Started)
    /\ \A i \in 1..Len(AuthEnq) :
           /\ IsAuthReply(AuthEnq[i].val)
           /\ Started[i].url = AuthCodeURL(OIDCDoc.authorization_endpoint)
           /\ \E conv \in ImplDependentInts :
                  AuthEnq[i].val =
                      jsonMarshal(createAuthError(getMessageID(linesRead[Started[i].n], conv),
                                                  Started[i].url))
    /\ Len(AuthOut) <= Len(AuthEnq)
    /\ \A i \in 1..Len(AuthOut) : AuthOut[i].val = AuthEnq[i].val \o <<"\n">>

C11_Witness ==
    /\ Len(Admitted) = 2
    /\ Len(Started) = 1
    /\ Len(AuthOut) = 1
    /\ hsPc = "loop"

\* C12: every POST that HTTPPostSender builds while the access token is
\* non-empty carries Authorization: Bearer <that token>, and a POST built
\* while the token is empty carries no Authorization header.
C12_TokenAttached ==
    [][Len(posts') = Len(posts) + 1 =>
          posts'[Len(posts')].auth =
              (IF accessToken # "" THEN <<"Bearer ", accessToken>> ELSE <<>>)]_vars

C12_Witness ==
    /\ Len(posts) = 2
    /\ posts[1].auth = <<>>
    /\ posts[2].auth = <<"Bearer ", Token>>
    /\ accessToken = Token
    /\ hsPc = "do"

\* C13: the attempt counter never exceeds the configured MaxAuthAttempts
\* (configured >= 1), whatever the order of CanAttemptAuth, ResetAuthAttempts
\* and HandleAuthChallenge calls and however time passes.
C13_CounterWithinMax == authAttempts \in 0..maxAuthAttempts

C13_Witness ==
    /\ maxAuthAttempts = MaxAuthAttempts
    /\ authAttempts = 1
    /\ lastAuthAttempt = maxAuthAttempts + 1
    /\ \A i \in 1..Len(authLog) : authLog[i].err # "denied"
    /\ \E i \in 1..Len(authLog) : authLog[i].op = "HandleAuthChallenge"

\* a step in which the admission check ran, and what it answered
LastCall == authLog'[Len(authLog')]
AdmissionStep ==
    /\ Len(authLog') = Len(authLog) + 1
    /\ LastCall.op \in {"CanAttemptAuth", "HandleAuthChallenge"}
Permitted == LastCall.err # "denied"
InCooldown == lastAuthAttempt # 0 /\ now - lastAuthAttempt < AuthCooldownPeriod

\* C15 as stated: within the cooldown of a stamped attempt the check denies and
\* leaves the ledger unchanged; with the counter at the maximum and the window
\* still open it denies; otherwise it increments the counter, stamps
\* lastAttempt = now and permits.
C15_AdmissionIncrements ==
    [][AdmissionStep =>
          IF InCooldown
            THEN ~Permitted /\ UNCHANGED ledgerVars
            ELSE /\ Permitted
                 /\ authAttempts' = authAttempts + 1
                 /\ lastAuthAttempt' = now]_vars

\* C15 amended: as stated, except that when the counter has reached the maximum
\* and no cooldown window is open the check first resets the counter to zero,
\* so that the permitted attempt leaves it at 1 instead of incrementing it.
C15_AdmissionDecision ==
    [][AdmissionStep =>
          IF InCooldown
            THEN ~Permitted /\ UNCHANGED ledgerVars
            ELSE /\ Permitted
                 /\ authAttempts' = IF authAttempts >= maxAuthAttempts
                                      THEN 1 ELSE authAttempts + 1
                 /\ lastAuthAttempt' = now]_vars

C15_Witness ==
    /\ maxAuthAttempts = 2
    /\ Len(authLog) = 4
    /\ \A i \in 1..4 : authLog[i].op = "CanAttemptAuth"
    /\ \A i \in 1..3 : authLog[i].err = "nil"
    /\ authLog[4].err = "denied"
    /\ authAttempts = 1

C17_ResetThenPermitted ==
    /\ [][(Len(authLog') = Len(authLog) + 1 /\ LastCall.op = "ResetAuthAttempts") =>
              (authAttempts' = 0 /\ lastAuthAttempt' = 0)]_vars
    /\ [](\A i \in 1..(Len(authLog) - 1) :
              (authLog[i].op = "ResetAuthAttempts" /\ authLog[i + 1].op # "ResetAuthAttempts")
                  => authLog[i + 1].err # "denied")

C17_Witness ==
    /\ maxAuthAttempts = 1
    /\ now = 1
    /\ Len(authLog) = 3
    /\ authLog[1].op = "CanAttemptAuth" /\ authLog[1].err = "nil"
    /\ authLog[2].op = "ResetAuthAttempts"
    /\ authLog[3].op = "CanAttemptAuth" /\ authLog[3].err = "nil"

\* C14: at most one authentication attempt is in flight: at no time are two
\* callback servers started by the AuthManager un-shut-down.
C14_OneCallbackServer == authServersUp <= 1

\* C18: when a POST carrying the token obtained by a completed authentication
\* is answered successfully, the ledger is reset: counter zero, lastAttempt
\* cleared.
C18_LedgerResetOnTokenUse ==
    (/\ hsPc = "sendOut"
     /\ hsOut.src = "http200"
     /\ posts[Len(posts)].auth = <<"Bearer ", Token>>)
        => (authAttempts = 0 /\ lastAuthAttempt = 0)

\* C19 as stated: the counter is set back only by the reset tied to successful
\* token use (ResetAuthAttempts); the expiry of the cooldown never does it.
C19_OnlyResetLowersCounter ==
    [][authAttempts' < authAttempts =>
          (Len(authLog') = Len(authLog) + 1 /\ LastCall.op = "ResetAuthAttempts")]_vars

\* C19 amended: the counter is set back by ResetAuthAttempts, and also by the
\* admission check itself when it runs with the counter at the maximum after
\* the cooldown has expired (the counter then restarts at 1); the passage of
\* time without such a call leaves the counter and lastAttempt unchanged.
C19_ResetOrExpiredCooldown ==
    /\ [][authAttempts' < authAttempts =>
              /\ Len(authLog') = Len(authLog) + 1
              /\ \/ LastCall.op = "ResetAuthAttempts"
                 \/ /\ AdmissionStep
                    /\ Permitted
                    /\ authAttempts >= maxAuthAttempts
                    /\ ~InCooldown
                    /\ authAttempts' = 1]_vars
    /\ [][now' # now => UNCHANGED ledgerVars]_vars

C19_Witness ==
    /\ maxAuthAttempts = 2
    /\ Len(authLog) = 3
    /\ \A i \in 1..3 : authLog[i].op = "HandleAuthChallenge" /\ authLog[i].err # "denied"
    /\ authAttempts = 1
    /\ now = 4

\* a step in which HTTPPostSender got the answer of HandleAuthChallenge
ChallengeStep ==
    /\ hsPc = "do"
    /\ Len(authLog') = Len(authLog) + 1
    /\ LastCall.op = "HandleAuthChallenge"

\* C20: when the admission check denies a 401/403 challenge, nothing is put
\* on stdoutChan for the message, no OIDC discovery request is issued, no
\* callback server is started, and HTTPPostSender goes on with its loop.
C20_DeniedChallengeIsSilent ==
    /\ [][(ChallengeStep /\ InCooldown) =>
              /\ LastCall.err = "denied"
              /\ ~LastCall.fetched
              /\ UNCHANGED <<oidcConfig, authServer, authServersUp, ledgerVars>>
              /\ hsOut'.src = "none"
              /\ hsPc' = "loop" /\ hsRet' = hsRet
              /\ UNCHANGED outChan]_vars
    /\ [](Len(AuthEnq) + PendingSendAuth
              <= Len(SelectSeq(Challenges, LAMBDA c : c.err # "denied")))

C20_Witness ==
    /\ Len(Challenges) = 2
    /\ Challenges[1].err = "nil"
    /\ Challenges[2].err = "denied"
    /\ Len(AuthOut) = 1
    /\ Len(stdoutHist) = 1
    /\ hsRet = "nil"

\* the place in the history of the challenge that started the k-th flow
IsStartedFlow(i) == authLog[i].op = "HandleAuthChallenge" /\ authLog[i].err = "nil"
FlowIndex(k) ==
    CHOOSE i \in 1..Len(authLog) :
        IsStartedFlow(i) /\ Cardinality({j \in 1..i : IsStartedFlow(j)}) = k
\* a callback of the k-th flow exchanged its code and stored the token
FlowStored(k) ==
    \E j \in (FlowIndex(k) + 1)..Len(authLog) :
        authLog[j].op = "handleCallback" /\ authLog[j].err = "nil"

\* C21: the waiter HandleAuthChallenge returns for a flow does not return
\* before the callback server of that flow has exchanged the code and stored
\* the token.
C21_WaiterBlocksUntilExchange ==
    \A k \in 1..Len(waiters) : waiters[k] = "returned" => FlowStored(k)

CallbackStep ==
    /\ Len(authLog') = Len(authLog) + 1
    /\ LastCall.op = "handleCallback"

\* C22: the access token is empty until an authentication completes and
\* changes only in the callback handler when the request carries a code and
\* the exchange succeeds; a callback without a code or with a failed exchange
\* leaves the token, the callback server and the waiter unchanged.
C22_TokenOnlyByExchange ==
    /\ [](accessToken # "" =>
              \E j \in 1..Len(authLog) :
                  authLog[j].op = "handleCallback" /\ authLog[j].err = "nil")
    /\ [][accessToken' # accessToken => (CallbackStep /\ LastCall.err = "nil")]_vars
    /\ [][(CallbackStep /\ LastCall.err # "nil") =>
              UNCHANGED <<accessToken, authServer, authServersUp, authCompleteClosed,
                          waiters, cbPending>>]_vars

C22_Witness ==
    /\ Len(authLog) = 2
    /\ authLog[1].op = "HandleAuthChallenge" /\ authLog[1].err = "nil"
    /\ authLog[2].op = "handleCallback" /\ authLog[2].err = "exchange"
    /\ accessToken = ""
    /\ authServer = "serving"
    /\ waiters = <<"waiting">>

\* C23: once the outer context is cancelled or the callback has completed, the
\* callback server is shut down and no callback server started by an earlier
\* challenge remains listening.
C23_NoServerLeftAfterShutdown == authServer = "shutdown" => authServersUp = 0

FailedWrites == IF opRet = "writeErr" THEN 1 ELSE 0

\* C24: OutputProxy writes exactly the messages it takes from stdoutChan, in
\* the order they were sent on the channel whichever producer sent them, each
\* followed by one newline; none is written twice, reordered or without its
\* newline.
C24_OutputInChannelOrder ==
    /\ Len(stdout) + FailedWrites + Len(stdoutChan) = Len(stdoutHist)
    /\ \A i \in 1..Len(stdout) :
           /\ stdout[i].src = stdoutHist[i].src
           /\ stdout[i].val = stdoutHist[i].val \o <<"\n">>
    /\ \A i \in 1..Len(stdoutChan) :
           stdoutChan[i] = stdoutHist[Len(stdoutHist) - Len(stdoutChan) + i]

C24_Witness ==
    /\ Len(stdout) = 3
    /\ stdout[1].src = "http200"
    /\ stdout[2].src = "sse"
    /\ stdout[3].src = "auth"
    /\ stdoutChan = <<>>

\* the lines sent on stdinToPost so far: those HTTPPostSender took, then
\* those still in the channel
PublishedLines ==
    [i \in 1..Len(posts) |-> posts[i].body]
        \o [i \in 1..Len(stdinToPost) |-> stdinToPost[i].line]

\* C25: FileReader publishes the lines to stdinToPost in input order, closes
\* the channel exactly once on every exit path (end of input, read error,
\* cancellation), never sends after closing, and publishes nothing for an
\* empty input.
C25_PublishInOrderCloseOnce ==
    /\ [](/\ Len(PublishedLines) <= Len(linesRead)
          /\ PublishedLines = SubSeq(linesRead, 1, Len(PublishedLines))
          /\ frPc = "scan" => Len(PublishedLines) = Len(linesRead)
          /\ frPc = "send" => Len(PublishedLines) = Len(linesRead) - 1
          /\ stdinToPostClosed <=> frPc = "done"
          /\ frPc = "done" <=> frRet \in {"EOF", "readErr", "ctxErr"}
          /\ frRet \in {"EOF", "readErr"} => Len(PublishedLines) = Len(linesRead))
    /\ [][stdinToPostClosed =>
              (stdinToPostClosed' /\ Len(PublishedLines') = Len(PublishedLines))]_vars
    /\ [][(~stdinToPostClosed /\ stdinToPostClosed') =>
              (frPc # "done" /\ frPc' = "done")]_vars

C25_Witness ==
    /\ frRet = "ctxErr"
    /\ stdinToPostClosed
    /\ Len(linesRead) = 2
    /\ Len(PublishedLines) = 1
    /\ hsRet = "nil"

\* C26: SSEWorker.Run returns the context's error only when the context is
\* cancelled (and can always do so then), returns nil only when the event
\* channel was closed, having sent nothing on postPathChan if no event
\* arrived, and never returns because the subscription failed.
C26_SSEWorkerReturns ==
    useSse =>
        /\ swPc = "done" <=> swRet \in {"ctxErr", "nil"}
        /\ swRet = "ctxErr" => CtxDone
        /\ swRet = "nil" => (sseSub = "closed" /\ (sseRecv = <<>> => pathSent = <<>>))
        /\ (sseSub = "failed" /\ swPc = "done") => (swRet = "ctxErr" /\ CtxDone)
        /\ (CtxDone /\ swPc # "done") => ENABLED SWCancel

C26_Witness ==
    /\ sseSub = "failed"
    /\ swRet = "ctxErr"
    /\ sseRecv = <<>>
    /\ startRet

\* a step in which client.Do returned an error, a 202 or a status that is none
\* of 200, 202, 401, 403
QuietAnswerStep ==
    /\ hsPc = "do" /\ hsPc' # "do"
    /\ resp200' = resp200
    /\ authLog' = authLog

SetupFatal(c) == c.err \in {"discovery", "provider"}

\* C28: a setup-fatal error (invalid endpoint URL, OIDC discovery failure, OIDC
\* provider initialization failure) makes HTTPPostSender return: after it no
\* further message is posted.
C28_SetupFatalReturns ==
    /\ hsRet = "urlErr" => (hsPc = "done" /\ posts = <<>>)
    /\ \A i \in 1..Len(Challenges) :
           SetupFatal(Challenges[i]) =>
               \A j \in 1..Len(posts) : posts[j].n <= Challenges[i].n

\* C29: on every path through the handling of a received response the body
\* is drained and closed before the next message is taken from stdinToPost:
\* while a message taken from the channel is being posted, no body of an
\* earlier response is open.
C29_BodyClosedBeforeNextMessage ==
    hsPc = "do" => bodiesOpen = 0

\* the challenges whose discovery request was answered with the configuration
FetchSucceeded(c) == c.fetched /\ c.err \in {"nil", "provider"}

\* C30: after one successful discovery fetch, a later admitted challenge
\* issues no further discovery request.
C30_DiscoveryFetchedOnce ==
    \A i \in 1..Len(Challenges) : \A j \in 1..Len(Challenges) :
        (i < j /\ FetchSucceeded(Challenges[i])) => ~Challenges[j].fetched

\* the values SSEWorker has sent on stdoutChan, in the order of the sends
SseOut ==
    LET sel == SelectSeq(stdoutHist, LAMBDA m : m.src = "sse")
    IN  [i \in 1..Len(sel) |-> sel[i].val]

IsPrefix(s, t) == Len(s) <= Len(t) /\ SubSeq(t, 1, Len(s)) = s

\* C32 as stated: every event that is not endpoint-like is delivered verbatim
\* to stdoutChan, in the order received: once SSEWorker is past the send, the
\* values it sent are exactly the events of that kind it received.
C32_EveryDataEventDelivered ==
    (useSse /\ swPc # "sendOutput") => SseOut = DataEvents

\* C32 amended: the values SSEWorker sent on stdoutChan are, verbatim and in
\* the order received, the events that are not endpoint-like; all of them
\* unless SSEWorker returned on cancellation, and then all but at most the
\* one received last.
C32_DataEventsDeliveredInOrder ==
    useSse =>
        /\ IsPrefix(SseOut, DataEvents)
        /\ Len(SseOut) >= Len(DataEvents) - 1
        /\ (swPc = "recv" \/ swRet = "nil") => SseOut = DataEvents
        /\ (Len(SseOut) < Len(DataEvents) /\ swPc = "done") =>
               (swRet = "ctxErr" /\ ~IsEndpointLike(sseRecv[Len(sseRecv)]))

C32_Witness ==
    /\ sseRecv = <<DataWorld, DataHello>>
    /\ SseOut = <<DataWorld, DataHello>>
    /\ Len(stdout) = 2

\* C33: when the SSE subscription has failed no POST is issued, and Start
\* returns once the context passed to it is cancelled.
C33_FailedSubscriptionHandled ==
    /\ [](sseSub = "failed" => (posts = <<>> /\ pathSent = <<>>))
    /\ (sseSub = "failed" /\ parentDone) ~> startRet

MessageEvents == SelectSeq(eventLog, LAMBDA e : e.type = "message")
EndpointEventsPx == SelectSeq(eventLog, LAMBDA e : e.type = "endpoint")
AbsoluteURL(data) ==
    IF data # <<>> /\ data[1] = "/" THEN <<ServerURL[1]>> \o data ELSE data

\* C34: in the ProxyServer only events of type message write their data to
\* the output; an endpoint event only sets PostURL and Connected; an event
\* with a missing or unknown type produces no output and changes no state.
\* So the output is the data of the message events, one line each, and
\* PostURL and Connected are what the last endpoint event left.
C34_OnlyMessageEventsWritten ==
    /\ OutputWriter = [i \in 1..Len(MessageEvents) |-> OutputLine(MessageEvents[i].data)]
    /\ Connected <=> EndpointEventsPx # <<>>
    /\ PostURL = IF EndpointEventsPx = <<>> THEN <<>>
                 ELSE AbsoluteURL(EndpointEventsPx[Len(EndpointEventsPx)].data)

C34_Witness ==
    /\ eventLog = <<[type |-> "", data |-> DataHello], [type |-> "ping", data |-> PathRel]>>
    /\ OutputWriter = <<>>
    /\ ~Connected

\* C35: Stop terminates: after DoneChan is closed the input reader, the SSE
\* connection handler and the message sender all finish and WaitGroup.Wait
\* returns.
C35_StopTerminates == (stopPc = "waiting") ~> (stopPc = "returned")

\* C40: once an endpoint event has been processed the connection signal is
\* not lost: no sender is blocked in the select of waitForConnection while
\* the proxy is connected.
C40_ConnectionSignalNotLost == msPc = "wait" => ~isConnected

IsPermit(d) == d.op = "CanAttemptAuth" /\ d.err1 = "nil"

FailedAfterAdmission(c) ==
    c.op = "HandleAuthChallenge" /\ c.err \in {"noHeader", "noURL", "discovery", "provider"}

AnyChallengeStep ==
    /\ Len(authLog') = Len(authLog) + 1
    /\ LastCall.op = "HandleAuthChallenge"

\* C37: an admitted HandleAuthChallenge that then fails (no WWW-Authenticate
\* header, nil request URL, discovery failure, provider initialization
\* failure) has counted the attempt and stamped lastAttempt and returns no
\* authorization URL; the next challenge within the cooldown is denied.
C37_FailedChallengeKeepsAttempt ==
    /\ [][(AnyChallengeStep /\ FailedAfterAdmission(LastCall)) =>
              /\ authAttempts' = (IF authAttempts >= maxAuthAttempts THEN 0 ELSE authAttempts) + 1
              /\ lastAuthAttempt' = now
              /\ LastCall.url = <<>>
              /\ UNCHANGED <<authServer, authServersUp, waiters, outChan>>]_vars
    /\ [][(/\ AnyChallengeStep
            /\ authLog # <<>>
            /\ FailedAfterAdmission(authLog[Len(authLog)])
            /\ now - lastAuthAttempt < AuthCooldownPeriod) =>
              LastCall.err = "denied"]_vars

C37_Witness ==
    /\ Len(authLog) = 2
    /\ authLog[1].op = "HandleAuthChallenge" /\ authLog[1].err = "noURL"
    /\ authLog[2].op = "HandleAuthChallenge" /\ authLog[2].err = "denied"
    /\ authAttempts = 1
    /\ lastAuthAttempt = now

\* C38: authCompleteChan is closed at most once in any execution; no
\* execution reaches a close of the already closed channel.
C38_CompletionClosedAtMostOnce == ~authPanic

\* what handleCallback answers, stores and starts, by the code parameter and
\* the result of the exchange alone
CallbackOutcome(hasCode, exchangeOk) ==
    [err |-> IF ~hasCode THEN "noCode" ELSE IF ~exchangeOk THEN "exchange" ELSE "nil",
     stored |-> hasCode /\ exchangeOk,
     release |-> IF hasCode /\ exchangeOk THEN 1 ELSE 0]

ExpectedID(line) ==
    IF line \in {LineA, LineFloat, LineStr, LineStrFloat} THEN 7 ELSE -1

\* C31: the synthesized auth-challenge reply for a refused POST carries the
\* id extracted from the message whose POST was refused: the same integer
\* for 7, 7.0 and "7", and -1 for an absent id, a non-numeric string id or
\* malformed JSON.
C31_ReplyCarriesMessageID ==
    /\ Len(AuthEnq) <= Len(Started)
    /\ \A i \in 1..Len(AuthEnq) :
           AuthEnq[i].val =
               jsonMarshal(createAuthError(ExpectedID(linesRead[Started[i].n]),
                                           Started[i].url))

====
